---- MODULE Spec2Model ----
(***************************************************************************)
(* A model of deflate-rs: the bit reader (bit_io.rs), the canonical        *)
(* Huffman tree (huffman.rs), the LZSS symbol parser and the DEFLATE       *)
(* decoder and stored-block encoder (deflate.rs), the checksumming sink    *)
(* (out_with_checksum.rs) and the gzip member decoder (gzip.rs).           *)
(*                                                                         *)
(* Integers keep the width of the Rust types (u8, u16, u32).  Two sizes    *)
(* are scaled down so that TLC can cross them: the encoder's block         *)
(* capacity MAX_BYTES_PER_BLOCK (u16::MAX in deflate.rs:320) and the       *)
(* sliding window's capacity WINDOW_SIZE (32 768 in the specification).    *)
(***************************************************************************)
EXTENDS Integers, Sequences, FiniteSets, TLC

\* ------------------------------------------------------------------------
\* Bounds of the model
\* ------------------------------------------------------------------------

\* capacity of one stored block written by the encoder (65 535 in the source)
MAX_BYTES_PER_BLOCK == 2

\* capacity of the sliding window (32 768 in the source)
WINDOW_SIZE == 4

\* ------------------------------------------------------------------------
\* Arithmetic on fixed-width integers
\* ------------------------------------------------------------------------

Min(a, b) == IF a < b THEN a ELSE b

\* bit i (0 = least significant) of v
Bit(v, i) == (v \div (2 ^ i)) % 2

\* `!x` on a u16
Not16(x) == 65535 - x

RECURSIVE Xor(_, _)
Xor(a, b) ==
  IF a = 0 THEN b
  ELSE IF b = 0 THEN a
  ELSE ((a + b) % 2) + 2 * Xor(a \div 2, b \div 2)

\* bitvec `load_le` of a bit slice: the first bit weighs 2^0
RECURSIVE load_le(_)
load_le(bits) ==
  IF bits = <<>> THEN 0 ELSE bits[1] + 2 * load_le(Tail(bits))

\* the k low bits of v, least significant first (`view_bits::<Lsb0>()[..k]`)
view_bits(v, k) == [i \in 1..k |-> Bit(v, i - 1)]

\* `slice.reverse()`
reverse(s) == [i \in 1..Len(s) |-> s[Len(s) + 1 - i]]

\* `to_le_bytes` of a u16
to_le_bytes16(v) == << v % 256, v \div 256 >>

\* A u32 is kept as its two 16-bit halves, [lo, hi].
u32_zero == [lo |-> 0, hi |-> 0]

\* `to_le_bytes` of a u32
to_le_bytes32(v) == to_le_bytes16(v.lo) \o to_le_bytes16(v.hi)

\* u32::wrapping_add(1)
wrapping_inc(v) ==
  IF v.lo < 65535 THEN [v EXCEPT !.lo = @ + 1]
  ELSE [lo |-> 0, hi |-> (v.hi + 1) % 65536]

Xor32(a, b) == [lo |-> Xor(a.lo, b.lo), hi |-> Xor(a.hi, b.hi)]

\* ------------------------------------------------------------------------
\* State
\* ------------------------------------------------------------------------

VARIABLES
  mode,        \* which entry point runs: "encode", "deflate", "gzip"
  input,       \* the bytes of the BitReader's source
  rd,          \* BitReader: [pos (bytes taken from the source), byte, idx]
  stage,       \* DeflateDecoder.stage
  is_final,    \* ParsedMode.is_final
  encoding,    \* ParsedMode.encoding
  pc,          \* position inside the ParsedMode handler
  blk,         \* the stored block's header: [len, nlen, start]
  cnt,         \* iterations left of the running `for` loop
  cur,         \* the back-reference being copied: [l3, d1, start, held]
  trees,       \* the Huffman block's trees: [fixed, literal, distance]
  out_buffer,  \* DeflateDecoder.out_buffer (the sliding window)
  out,         \* the bytes the caller's sink has received
  cksum,       \* OutWithChecksum: [size, crc]
  err,         \* the io::Error the call returned ("None" while running)
  gz,          \* GzipDecoder: [stage, flags of the member being decoded]
  enc,         \* DeflateEncoder and its source: [stage, src, pos, buf]
  enc_out,     \* the bytes the encoder's sink has received
  desc,        \* how the input was built (never read by the program)
  calls,       \* decode calls made on a DeflateDecoder that is Complete
  unit         \* a function or type run on its own: its input and result

vars == << mode, input, rd, stage, is_final, encoding, pc, blk, cnt, cur, trees,
           out_buffer, out, cksum, err, gz, enc, enc_out, desc, calls, unit >>

\* ------------------------------------------------------------------------
\* bit_io.rs: ByteBuffer<ReadBuffer> and BitReader
\* ------------------------------------------------------------------------

BITS == 8

\* ByteBuffer::new_read and BitReader::new
new_read == [pos |-> 0, byte |-> 0, idx |-> BITS]

needs_flush(r) == r.idx = BITS

bits_left(r) == BITS - r.idx

\* BitReader::read_next_byte; ok = FALSE is UnexpectedEof
read_next_byte(r) ==
  IF r.pos >= Len(input)
  THEN [ok |-> FALSE, r |-> r]
  ELSE [ok |-> TRUE,
        r |-> [pos |-> r.pos + 1, byte |-> input[r.pos + 1], idx |-> 0]]

\* ByteBuffer::read: take min(bits_left, n) bits of the current byte
buffer_read(r, n) ==
  LET bit_count == Min(bits_left(r), n)
  IN [bits |-> [i \in 1..bit_count |-> Bit(r.byte, r.idx + i - 1)],
      r |-> [r EXCEPT !.idx = @ + bit_count]]

\* BitReader::read_exact of n bits
RECURSIVE read_exact(_, _)
read_exact(r, n) ==
  IF n = 0 THEN [ok |-> TRUE, bits |-> <<>>, r |-> r]
  ELSE
    LET nb == IF needs_flush(r) THEN read_next_byte(r) ELSE [ok |-> TRUE, r |-> r]
    IN IF ~nb.ok THEN [ok |-> FALSE, bits |-> <<>>, r |-> nb.r]
       ELSE LET got == buffer_read(nb.r, n)
                rest == read_exact(got.r, n - Len(got.bits))
            IN [ok |-> rest.ok, bits |-> got.bits \o rest.bits, r |-> rest.r]

\* is_eof loading the next byte whether or not the buffer is used up
is_eof_always_loads(r) ==
  [eof |-> ~read_next_byte(r).ok, r |-> read_next_byte(r).r]

\* BitReader::is_eof: loads the next byte when the buffer is used up
is_eof(r) ==
  IF ~needs_flush(r) THEN [eof |-> FALSE, r |-> r]
  ELSE LET nb == read_next_byte(r)
       IN [eof |-> ~nb.ok, r |-> nb.r]

\* read_u8_from_bits / read_u16_from_bits / read_u32_from_bits
read_uN_from_bits(r, bit_count) ==
  LET x == read_exact(r, bit_count)
  IN [ok |-> x.ok, val |-> load_le(x.bits), r |-> x.r]

read_bool(r) == read_uN_from_bits(r, 1)
read_u8(r) == read_uN_from_bits(r, 8)
read_u16(r) == read_uN_from_bits(r, 16)

\* read_u32: 32 bits, least significant first, as the two halves of a u32
read_u32(r) ==
  LET x == read_exact(r, 32)
  IN [ok |-> x.ok,
      val |-> IF x.ok THEN [lo |-> load_le(SubSeq(x.bits, 1, 16)),
                            hi |-> load_le(SubSeq(x.bits, 17, 32))]
              ELSE u32_zero,
      r |-> x.r]

skip_to_byte_end(r) == [r EXCEPT !.idx = BITS]

\* ------------------------------------------------------------------------
\* huffman.rs: HuffmanTree
\* ------------------------------------------------------------------------

\* FIXED_LITERAL_CODE_LENGTHS.concat(): [8; 144], [9; 112], [7; 24], [8; 8]
FIXED_LITERAL_CODE_LENGTHS ==
  [i \in 1..144 |-> 8] \o [i \in 1..112 |-> 9] \o [i \in 1..24 |-> 7]
    \o [i \in 1..8 |-> 8]

\* compute_heap_index: walk the code's low code_len bits, most significant first
RECURSIVE heap_walk(_, _, _)
heap_walk(index, code, i) ==
  IF i = 0 THEN index
  ELSE heap_walk(2 * index + Bit(code, i - 1), code, i - 1)

\* compute_heap_index over every bit of the code, not its low code_len bits
compute_heap_index_all_bits(code, code_len) == 2 ^ code_len + code

compute_heap_index(code, code_len) == heap_walk(1, code, code_len)

\* the fold of from_code_lengths: how many entries have this length
code_length_counts(code_lengths, length) ==
  Cardinality({i \in DOMAIN code_lengths : code_lengths[i] = length})

largest_code_length(code_lengths) ==
  IF code_lengths = <<>> THEN 0
  ELSE CHOOSE l \in {code_lengths[i] : i \in DOMAIN code_lengths} :
         \A i \in DOMAIN code_lengths : code_lengths[i] <= l

\* the `code` pushed on next_code for `length`; the count of length 0 is added
\* too.  At most 320 lengths of at most 15 bits: the u32 cannot overflow.
RECURSIVE first_code(_, _)
first_code(code_lengths, length) ==
  IF length = 0 THEN 0
  ELSE ((first_code(code_lengths, length - 1)
          + code_length_counts(code_lengths, length - 1)) * 2)

\* one turn of the loop over the entries, zero-length ones included:
\* tree[heap_index] = Some(symbol); next_code[code_len] += 1.
\* slot[p + 1] is tree[p] and next_code[l + 1] is next_code[l]; None is -1.
place_symbol(code_lengths, s, t) ==
  LET code_len == code_lengths[s]
      heap_index == compute_heap_index(t.next_code[code_len + 1], code_len)
  IN [slot |-> [t.slot EXCEPT ![heap_index + 1] = s - 1],
      next_code |-> [t.next_code EXCEPT ![code_len + 1] = @ + 1]]

\* the turns for the entries from..to, in order (the test on `head` only
\* makes TLC compute the first half before it starts the second)
RECURSIVE place_symbols(_, _, _, _)
place_symbols(code_lengths, from, to, t) ==
  IF from > to THEN t
  ELSE IF from = to THEN place_symbol(code_lengths, from, t)
  ELSE LET mid == (from + to) \div 2
           head == place_symbols(code_lengths, from, mid, t)
       IN IF Len(head.slot) > 0 THEN place_symbols(code_lengths, mid + 1, to, head)
          ELSE t

\* HuffmanTree::from_code_lengths
from_code_lengths(code_lengths) ==
  LET largest == largest_code_length(code_lengths)
      size == 2 ^ (largest + 1)
      none == [p \in 1..size |-> -1]
      next_code == [l \in 1..(largest + 1) |-> first_code(code_lengths, l - 1)]
  IN [size |-> size,
      slot |-> place_symbols(code_lengths, 1, Len(code_lengths),
                             [slot |-> SubSeq(none, 1, size),
                              next_code |-> SubSeq(next_code, 1, largest + 1)]).slot]

fixed_literal == from_code_lengths(FIXED_LITERAL_CODE_LENGTHS)

\* HuffmanTree::decode
RECURSIVE tree_walk(_, _, _)
tree_walk(tree, index, r) ==
  LET b == read_bool(r)
  IN IF ~b.ok THEN [err |-> "UnexpectedEof", val |-> 0, r |-> b.r]
     ELSE LET next == 2 * index + b.val
          IN IF next >= tree.size
             THEN [err |-> "InvalidData", val |-> 0, r |-> b.r]
             ELSE IF tree.slot[next + 1] # -1
             THEN [err |-> "None", val |-> tree.slot[next + 1], r |-> b.r]
             ELSE tree_walk(tree, next, b.r)

decode(tree, r) == tree_walk(tree, 1, r)

\* the order in which a dynamic block gives the lengths of the code length code
DYNAMIC_CODE_LENGTH_SYMBOLS ==
  << 16, 17, 18, 0, 8, 7, 9, 6, 10, 5, 11, 4, 12, 3, 13, 2, 14, 1, 15 >>

\* the code_lengths array of dynamic_code_lengths: 0 where the block gave none
symbol_code_length(code_lengths_in_symbol_order, symbol) ==
  IF \E k \in 1..Len(code_lengths_in_symbol_order) :
       DYNAMIC_CODE_LENGTH_SYMBOLS[k] = symbol
  THEN code_lengths_in_symbol_order[
         CHOOSE k \in 1..Len(code_lengths_in_symbol_order) :
           DYNAMIC_CODE_LENGTH_SYMBOLS[k] = symbol]
  ELSE 0

\* HuffmanTree::dynamic_code_lengths
dynamic_code_lengths(code_lengths_in_symbol_order) ==
  from_code_lengths(
    [s \in 1..Len(DYNAMIC_CODE_LENGTH_SYMBOLS) |->
       symbol_code_length(code_lengths_in_symbol_order, s - 1)])

\* a tree not yet built
no_tree == [size |-> 0, slot |-> << >>]

\* decode_code_lengths: its locals at the start; prev = -1 is None
lengths_start(r) == [err |-> "None", r |-> r, code_lengths |-> << >>, prev |-> -1]

\* `read_u8_from_bits(n)? + base`, then resize(len + repeat, value); for
\* symbol 16 the value is prev_code_length, whose None fails after the read
repeat_length(st, x, base, value, prev_) ==
  IF ~x.ok THEN [st EXCEPT !.err = "UnexpectedEof", !.r = x.r]
  ELSE IF value = -1 THEN [st EXCEPT !.err = "InvalidData", !.r = x.r]
  ELSE [st EXCEPT !.r = x.r,
                  !.code_lengths = @ \o [i \in 1..(x.val + base) |-> value],
                  !.prev = prev_]

\* the match on one decoded symbol of the code length code
code_length_symbol(st, d) ==
  IF d.err # "None" THEN [st EXCEPT !.err = d.err, !.r = d.r]
  ELSE IF d.val <= 15
  THEN [st EXCEPT !.r = d.r, !.code_lengths = Append(@, d.val), !.prev = d.val]
  ELSE IF d.val = 16
  THEN repeat_length(st, read_uN_from_bits(d.r, 2), 3, st.prev, st.prev)
  ELSE IF d.val = 17 THEN repeat_length(st, read_uN_from_bits(d.r, 3), 3, 0, 0)
  ELSE IF d.val = 18 THEN repeat_length(st, read_uN_from_bits(d.r, 7), 11, 0, 0)
  ELSE [st EXCEPT !.err = "InvalidData", !.r = d.r]

\* `while code_lengths.len() < code_length_count`
RECURSIVE decode_lengths_loop(_, _, _)
decode_lengths_loop(tree, code_length_count, st) ==
  IF st.err # "None" \/ Len(st.code_lengths) >= code_length_count THEN st
  ELSE decode_lengths_loop(tree, code_length_count,
                           code_length_symbol(st, decode(tree, st.r)))

\* after the loop: too many lengths fail, else the tree of the lengths
lengths_tree(code_length_count, st) ==
  IF st.err # "None" THEN [err |-> st.err, tree |-> no_tree, r |-> st.r]
  ELSE IF Len(st.code_lengths) > code_length_count
  THEN [err |-> "InvalidData", tree |-> no_tree, r |-> st.r]
  ELSE [err |-> "None", tree |-> from_code_lengths(st.code_lengths), r |-> st.r]

\* HuffmanTree::decode_code_lengths
decode_code_lengths(tree, code_length_count, r) ==
  lengths_tree(code_length_count,
               decode_lengths_loop(tree, code_length_count, lengths_start(r)))

\* DistanceEncoding::decode
distance_decode(distance_encoding, r) ==
  IF distance_encoding.kind = "Fixed"
  THEN LET x == read_uN_from_bits(r, 5)
       IN [err |-> IF x.ok THEN "None" ELSE "UnexpectedEof", val |-> x.val, r |-> x.r]
  ELSE decode(distance_encoding.tree, r)

\* ------------------------------------------------------------------------
\* deflate.rs: parse_symbol
\* ------------------------------------------------------------------------

\* A Symbol (or the error) with the reader after it
Parsed(err_, kind, lit, l3, d1, r) ==
  [err |-> err_, kind |-> kind, lit |-> lit, l3 |-> l3, d1 |-> d1, r |-> r]

\* `? ` on a read of extra bits
extra_bits(x, base) ==
  [err |-> IF x.ok THEN "None" ELSE "UnexpectedEof", val |-> base + x.val, r |-> x.r]

\* the match on length_code_minus_257 (a u8) with its extra bits
parse_length(c, r) ==
  IF c <= 7 THEN [err |-> "None", val |-> c, r |-> r]
  ELSE IF c <= 27
  THEN extra_bits(read_uN_from_bits(r, (c \div 4) - 1),
                  2 ^ ((c \div 4) + 1) + (2 ^ ((c \div 4) - 1)) * (c % 4))
  ELSE [err |-> "None", val |-> 255, r |-> r]

\* parse_distance with the second code of a pair starting where the first does
parse_distance_same_base(c, r) ==
  IF c <= 3 THEN [err |-> "None", val |-> c, r |-> r]
  ELSE IF c <= 29
  THEN extra_bits(read_uN_from_bits(r, (c \div 2) - 1), 2 ^ (c \div 2))
  ELSE [err |-> "InvalidData", val |-> 0, r |-> r]

\* the match on distance_code (a u8) with its extra bits
parse_distance(c, r) ==
  IF c <= 3 THEN [err |-> "None", val |-> c, r |-> r]
  ELSE IF c <= 29
  THEN extra_bits(read_uN_from_bits(r, (c \div 2) - 1),
                  2 ^ (c \div 2) + (2 ^ ((c \div 2) - 1)) * (c % 2))
  ELSE [err |-> "InvalidData", val |-> 0, r |-> r]

\* the back-reference once its length and its distance are known
back_reference(len, dist) ==
  IF dist.err # "None" THEN Parsed(dist.err, "None", 0, 0, 0, dist.r)
  ELSE Parsed("None", "BackReference", 0, len.val, dist.val, dist.r)

\* `distance_encoding.decode(in_)?` and the match on the distance code
parse_distance_code(dc) ==
  IF dc.err # "None" THEN dc ELSE parse_distance(dc.val, dc.r)

\* the arm 257..=285 after the length is known
parse_back_reference(distance_encoding_, len) ==
  IF len.err # "None" THEN Parsed(len.err, "None", 0, 0, 0, len.r)
  ELSE back_reference(len, parse_distance_code(distance_decode(distance_encoding_, len.r)))

\* the match on length_code
symbol_of(distance_encoding_, lc) ==
  IF lc.err # "None" THEN Parsed(lc.err, "None", 0, 0, 0, lc.r)
  ELSE IF lc.val <= 255 THEN Parsed("None", "Literal", lc.val, 0, 0, lc.r)
  ELSE IF lc.val = 256 THEN Parsed("None", "EndOfBlock", 0, 0, 0, lc.r)
  ELSE IF lc.val <= 285
  THEN parse_back_reference(distance_encoding_, parse_length(lc.val - 257, lc.r))
  ELSE Parsed("InvalidData", "None", 0, 0, 0, lc.r)

parse_symbol(length_huffman_tree, distance_encoding_, r) ==
  symbol_of(distance_encoding_, decode(length_huffman_tree, r))

\* ------------------------------------------------------------------------
\* lzss OutBuffer: the sliding window (a ring buffer with a write cursor)
\* ------------------------------------------------------------------------

new_out_buffer ==
  [buf |-> [i \in 0..(WINDOW_SIZE - 1) |-> 0], cursor |-> 0, len |-> 0]

push(ob, byte) ==
  [buf |-> [ob.buf EXCEPT ![ob.cursor] = byte],
   cursor |-> (ob.cursor + 1) % WINDOW_SIZE,
   len |-> Min(ob.len + 1, WINDOW_SIZE)]

\* the byte distance_minus_one + 1 places before the cursor; -1 is None
get(ob, distance_minus_one) ==
  IF distance_minus_one >= ob.len THEN -1
  ELSE ob.buf[(ob.cursor - 1 - distance_minus_one) % WINDOW_SIZE]

\* ------------------------------------------------------------------------
\* out_with_checksum.rs: OutWithChecksum over the caller's sink
\* ------------------------------------------------------------------------

\* one bit of the reflected CRC-32 (polynomial 0xEDB88320) on a u32
crc_shift(c) ==
  LET shifted == [lo |-> (c.lo \div 2) + (c.hi % 2) * 32768, hi |-> c.hi \div 2]
  IN IF c.lo % 2 = 1 THEN Xor32(shifted, [lo |-> 33568, hi |-> 60856]) ELSE shifted

RECURSIVE crc_shifts(_, _)
crc_shifts(c, n) == IF n = 0 THEN c ELSE crc_shifts(crc_shift(c), n - 1)

ones32 == [lo |-> 65535, hi |-> 65535]

\* crc32fast::Hasher::update with one byte, on the finalized value
hasher_update(crc, byte) ==
  Xor32(crc_shifts(Xor32(Xor32(crc, ones32), [lo |-> byte, hi |-> 0]), 8), ones32)

\* Hasher::update with a slice (the test on `next` only makes TLC compute
\* it before the next byte is taken)
RECURSIVE hasher_update_all(_, _)
hasher_update_all(crc, bytes) ==
  IF bytes = <<>> THEN crc
  ELSE LET next == hasher_update(crc, Head(bytes))
       IN IF next.lo >= 0 THEN hasher_update_all(next, Tail(bytes)) ELSE crc

\* OutWithChecksum::new
new_out_with_checksum == [size |-> u32_zero, crc |-> u32_zero]

\* OutWithChecksum::write of one byte the sink accepts
checksum_write(c, byte) ==
  [size |-> wrapping_inc(c.size), crc |-> hasher_update(c.crc, byte)]

\* ------------------------------------------------------------------------
\* lzss.rs: the codes of a back-reference
\* ------------------------------------------------------------------------

\* u8::ilog2 / u16::ilog2 (v > 0)
RECURSIVE ilog2(_)
ilog2(v) == IF v <= 1 THEN 0 ELSE 1 + ilog2(v \div 2)

\* back_reference_length_code without the arm `255 => 28`
back_reference_length_code_no_285(length_minus_three) ==
  257 + (IF length_minus_three <= 7 THEN length_minus_three
         ELSE 4 * (ilog2(length_minus_three) - 1)
                + ((length_minus_three \div (2 ^ (ilog2(length_minus_three) - 2))) % 4))

back_reference_length_code(length_minus_three) ==
  257 + (IF length_minus_three <= 7 THEN length_minus_three
         ELSE IF length_minus_three <= 254
         THEN LET log2 == ilog2(length_minus_three)
              IN 4 * (log2 - 1) + ((length_minus_three \div (2 ^ (log2 - 2))) % 4)
         ELSE 28)

back_reference_length_extra_bits(length_minus_three) ==
  IF length_minus_three <= 7 THEN 0
  ELSE IF length_minus_three <= 254 THEN ilog2(length_minus_three) - 2
  ELSE 0

back_reference_distance_code(distance_minus_one) ==
  IF distance_minus_one <= 3 THEN distance_minus_one
  ELSE LET log2 == ilog2(distance_minus_one)
       IN 2 * log2 + ((distance_minus_one \div (2 ^ (log2 - 1))) % 2)

back_reference_distance_extra_bits(distance_minus_one) ==
  IF distance_minus_one <= 3 THEN 0 ELSE ilog2(distance_minus_one) - 1

\* ------------------------------------------------------------------------
\* deflate.rs: DeflateDecoder
\* ------------------------------------------------------------------------

\* TryFrom<&BitSlice<u8>> for DeflateEncoding (two bits, load_le)
encoding_try_from(bits) ==
  LET v == load_le(bits)
  IN IF v = 0 THEN "NoCompression"
     ELSE IF v = 1 THEN "FixedHuffman"
     ELSE IF v = 2 THEN "DynamicHuffman"
     ELSE "Invalid"

\* len_mismatch that compares the low bytes only
len_mismatch_low_byte(len, nlen) == Not16(len) % 256 # nlen % 256

\* the check of a stored block's header: `!len != nlen`
len_mismatch(len, nlen) == Not16(len) # nlen

\* the trees of the Huffman block being decoded
fixed_trees == [fixed |-> TRUE, literal |-> no_tree, distance |-> no_tree]

literal_huffman_tree == IF trees.fixed THEN fixed_literal ELSE trees.literal

distance_encoding ==
  IF trees.fixed THEN [kind |-> "Fixed", tree |-> no_tree]
  ELSE [kind |-> "Dynamic", tree |-> trees.distance]

\* ParsedMode, DynamicHuffman: the locals before the three counts
dynamic_start(r) ==
  [err |-> "None", r |-> r, counts |-> << >>, order |-> << >>,
   code_lengths_tree |-> no_tree, literal |-> no_tree, distance |-> no_tree]

put_count(st, x, base) ==
  IF ~x.ok THEN [st EXCEPT !.err = "UnexpectedEof", !.r = x.r]
  ELSE [st EXCEPT !.r = x.r, !.counts = Append(@, x.val + base)]

\* `read_u16_from_bits(5)? + 257`, `read_u8_from_bits(5)? + 1`,
\* `read_u8_from_bits(4)? + 4`
read_count(st, bit_count, base) ==
  IF st.err # "None" THEN st
  ELSE put_count(st, read_uN_from_bits(st.r, bit_count), base)

put_order(st, x) ==
  IF ~x.ok THEN [st EXCEPT !.err = "UnexpectedEof", !.r = x.r]
  ELSE [st EXCEPT !.r = x.r, !.order = Append(@, x.val)]

\* `for _ in 0..code_length_symbol_count`: 3 bits each
RECURSIVE read_order(_, _)
read_order(st, n) ==
  IF st.err # "None" \/ n = 0 THEN st
  ELSE read_order(put_order(st, read_uN_from_bits(st.r, 3)), n - 1)

\* the lengths in symbol order and the tree of the code length code
read_code_lengths_tree(st) ==
  IF st.err # "None" THEN st
  ELSE IF read_order(st, st.counts[3]).err # "None" THEN read_order(st, st.counts[3])
  ELSE [read_order(st, st.counts[3]) EXCEPT
          !.code_lengths_tree = dynamic_code_lengths(read_order(st, st.counts[3]).order)]

put_literal(st, t) ==
  IF t.err # "None" THEN [st EXCEPT !.err = t.err, !.r = t.r]
  ELSE [st EXCEPT !.r = t.r, !.literal = t.tree]

\* code_lengths_huffman_tree.decode_code_lengths(literal_code_length_count, in_)?
read_literal_tree(st) ==
  IF st.err # "None" THEN st
  ELSE put_literal(st, decode_code_lengths(st.code_lengths_tree, st.counts[1], st.r))

put_distance(st, t) ==
  IF t.err # "None" THEN [st EXCEPT !.err = t.err, !.r = t.r]
  ELSE [st EXCEPT !.r = t.r, !.distance = t.tree]

\* code_lengths_huffman_tree.decode_code_lengths(distance_code_length_count, in_)?
read_distance_tree(st) ==
  IF st.err # "None" THEN st
  ELSE put_distance(st, decode_code_lengths(st.code_lengths_tree, st.counts[2], st.r))

\* ParsedMode, DynamicHuffman, up to the call of decode_huffman_block
dynamic_trees(r) ==
  read_distance_tree(read_literal_tree(read_code_lengths_tree(
    read_count(read_count(read_count(dynamic_start(r), 5, 257), 5, 1), 4, 4))))

\* DeflateDecoder::decode is running: called directly, or by the gzip decoder
DeflateRunning ==
  /\ err = "None"
  /\ \/ mode = "deflate"
     \/ mode = "gzip" /\ gz.stage = "DecodeDeflate" /\ gz.pc = "run"
  /\ stage # "Complete"

callers == << mode, input, gz, enc, enc_out, desc, calls, unit >>

\* out.write_all(&[byte]) on the OutWithChecksum
Write(byte) ==
  /\ out' = Append(out, byte)
  /\ cksum' = checksum_write(cksum, byte)

\* advance_stage, DecodeStage::NewBlock
DecodeNewBlock ==
  /\ DeflateRunning
  /\ stage = "NewBlock"
  /\ LET f == read_bool(rd)
         e == read_exact(f.r, 2)
         enc_ == encoding_try_from(e.bits)
     IN IF ~f.ok \/ ~e.ok
        THEN /\ err' = "UnexpectedEof"
             /\ rd' = IF f.ok THEN e.r ELSE f.r
             /\ UNCHANGED << stage, is_final, encoding, pc >>
        ELSE IF enc_ = "Invalid"
        THEN /\ err' = "InvalidData"
             /\ rd' = e.r
             /\ UNCHANGED << stage, is_final, encoding, pc >>
        ELSE /\ stage' = "ParsedMode"
             /\ is_final' = (f.val = 1)
             /\ encoding' = enc_
             /\ pc' = "dispatch"
             /\ rd' = e.r
             /\ err' = err
  /\ UNCHANGED << blk, cnt, cur, trees, out_buffer, out, cksum >>
  /\ UNCHANGED callers

\* ParsedMode, NoCompression: skip to the byte end, LEN, NLEN and their check
DecodeStoredHeader ==
  /\ DeflateRunning
  /\ stage = "ParsedMode" /\ encoding = "NoCompression" /\ pc = "dispatch"
  /\ LET len == read_u16(skip_to_byte_end(rd))
         nlen == read_u16(len.r)
     IN IF ~len.ok \/ ~nlen.ok
        THEN /\ err' = "UnexpectedEof"
             /\ rd' = IF len.ok THEN nlen.r ELSE len.r
             /\ UNCHANGED << pc, cnt, blk >>
        ELSE /\ rd' = nlen.r
             /\ blk' = [len |-> len.val, nlen |-> nlen.val, start |-> Len(out)]
             /\ IF len_mismatch(len.val, nlen.val)
                THEN err' = "InvalidData" /\ UNCHANGED << pc, cnt >>
                ELSE err' = err /\ pc' = "stored" /\ cnt' = len.val
  /\ UNCHANGED << stage, is_final, encoding, cur, trees, out_buffer, out, cksum >>
  /\ UNCHANGED callers

\* ParsedMode, NoCompression: one turn of `for _ in 0..len`
DecodeStoredByte ==
  /\ DeflateRunning
  /\ stage = "ParsedMode" /\ pc = "stored" /\ cnt > 0
  /\ LET b == read_u8(rd)
     IN /\ rd' = b.r
        /\ IF ~b.ok
           THEN err' = "UnexpectedEof" /\ UNCHANGED << cnt, out, cksum >>
           ELSE err' = err /\ Write(b.val) /\ cnt' = cnt - 1
  /\ UNCHANGED << stage, is_final, encoding, pc, blk, cur, trees, out_buffer >>
  /\ UNCHANGED callers

\* ParsedMode, FixedHuffman: the fixed trees, then decode_huffman_block
DecodeFixedHuffman ==
  /\ DeflateRunning
  /\ stage = "ParsedMode" /\ encoding = "FixedHuffman" /\ pc = "dispatch"
  /\ trees' = fixed_trees
  /\ pc' = "huffman"
  /\ UNCHANGED << rd, stage, is_final, encoding, blk, cnt, cur, out_buffer, out,
                  cksum, err >>
  /\ UNCHANGED callers

\* ParsedMode, DynamicHuffman: the block's own trees, then decode_huffman_block
DecodeDynamicHuffman ==
  /\ DeflateRunning
  /\ stage = "ParsedMode" /\ encoding = "DynamicHuffman" /\ pc = "dispatch"
  /\ LET t == dynamic_trees(rd)
     IN /\ rd' = t.r
        /\ err' = t.err
        /\ IF t.err # "None"
           THEN UNCHANGED << pc, trees >>
           ELSE /\ pc' = "huffman"
                /\ trees' = [fixed |-> FALSE, literal |-> t.literal,
                             distance |-> t.distance]
  /\ UNCHANGED << stage, is_final, encoding, blk, cnt, cur, out_buffer, out, cksum >>
  /\ UNCHANGED callers

\* decode_huffman_block: one turn of the loop, up to the back-reference's copy
DecodeSymbol ==
  /\ DeflateRunning
  /\ stage = "ParsedMode" /\ pc = "huffman"
  /\ LET s == parse_symbol(literal_huffman_tree, distance_encoding, rd)
     IN /\ rd' = s.r
        /\ IF s.err # "None"
           THEN /\ err' = s.err
                /\ UNCHANGED << pc, cnt, cur, out_buffer, out, cksum >>
           ELSE /\ err' = err
                /\ IF s.kind = "Literal"
                   THEN /\ Write(s.lit)
                        /\ out_buffer' = push(out_buffer, s.lit)
                        /\ UNCHANGED << pc, cnt, cur >>
                   ELSE IF s.kind = "EndOfBlock"
                   THEN /\ pc' = "end"
                        /\ UNCHANGED << cnt, cur, out_buffer, out, cksum >>
                   ELSE /\ pc' = "backref"
                        /\ cnt' = s.l3 + 3
                        /\ cur' = [l3 |-> s.l3, d1 |-> s.d1, start |-> Len(out),
                                   held |-> out_buffer.len]
                        /\ UNCHANGED << out_buffer, out, cksum >>
  /\ UNCHANGED << stage, is_final, encoding, blk, trees >>
  /\ UNCHANGED callers

\* DecodeBackReferenceByte that takes a zero byte where the window has none
DecodeBackReferenceByte_zero_fill ==
  /\ DeflateRunning
  /\ stage = "ParsedMode" /\ pc = "backref"
  /\ LET byte == IF get(out_buffer, cur.d1) = -1 THEN 0 ELSE get(out_buffer, cur.d1)
     IN /\ err' = err
        /\ Write(byte)
        /\ out_buffer' = push(out_buffer, byte)
        /\ cnt' = cnt - 1
        /\ pc' = IF cnt = 1 THEN "huffman" ELSE "backref"
  /\ UNCHANGED << rd, stage, is_final, encoding, blk, cur, trees >>
  /\ UNCHANGED callers

\* decode_huffman_block, BackReference: one turn of `for _ in 0..length`
DecodeBackReferenceByte ==
  /\ DeflateRunning
  /\ stage = "ParsedMode" /\ pc = "backref"
  /\ LET byte == get(out_buffer, cur.d1)
     IN IF byte = -1
        THEN /\ err' = "InvalidData"
             /\ UNCHANGED << pc, cnt, out_buffer, out, cksum >>
        ELSE /\ err' = err
             /\ Write(byte)
             /\ out_buffer' = push(out_buffer, byte)
             /\ cnt' = cnt - 1
             /\ pc' = IF cnt = 1 THEN "huffman" ELSE "backref"
  /\ UNCHANGED << rd, stage, is_final, encoding, blk, cur, trees >>
  /\ UNCHANGED callers

\* DecodeEndBlock leaving the rest of the last byte in the reader
DecodeEndBlock_keeps_byte ==
  /\ DeflateRunning
  /\ stage = "ParsedMode"
  /\ pc = "end" \/ (pc = "stored" /\ cnt = 0)
  /\ IF is_final
     THEN rd' = rd /\ stage' = "Complete"
     ELSE rd' = rd /\ stage' = "NewBlock"
  /\ pc' = "dispatch"
  /\ UNCHANGED << is_final, encoding, blk, cnt, cur, trees, out_buffer, out, cksum, err >>
  /\ UNCHANGED callers

\* ParsedMode, after the block's body: Complete or NewBlock
DecodeEndBlock ==
  /\ DeflateRunning
  /\ stage = "ParsedMode"
  /\ pc = "end" \/ (pc = "stored" /\ cnt = 0)
  /\ IF is_final
     THEN rd' = skip_to_byte_end(rd) /\ stage' = "Complete"
     ELSE rd' = rd /\ stage' = "NewBlock"
  /\ pc' = "dispatch"
  /\ UNCHANGED << is_final, encoding, blk, cnt, cur, trees, out_buffer, out, cksum, err >>
  /\ UNCHANGED callers

\* most decode calls made on a DeflateDecoder that is Complete
MaxCalls == 2

\* DeflateDecoder::decode called on a decoder that is Complete: the loop
\* `while !matches!(self.stage, DecodeStage::Complete)` makes no round
DecodeAgain ==
  /\ mode = "deflate" /\ err = "None"
  /\ stage = "Complete"
  /\ calls < MaxCalls
  /\ calls' = calls + 1
  /\ UNCHANGED << rd, stage, is_final, encoding, pc, blk, cnt, cur, trees, out_buffer,
                  out, cksum, err >>
  /\ UNCHANGED << mode, input, gz, enc, enc_out, desc, unit >>

\* ------------------------------------------------------------------------
\* gzip.rs: GzipDecoder
\* ------------------------------------------------------------------------

GZIP_ID1 == 31
GZIP_ID2 == 139
GZIP_CM_DEFLATE == 8

\* hcrc_hasher.update(bytes) under `if fhcrc`
hcrc_update(fhcrc, h, bytes) == IF fhcrc THEN hasher_update_all(h, bytes) ELSE h

\* the bytes hcrc_hasher has been given, in the order of its updates
hcrc_given(fhcrc, given, bytes) == IF fhcrc THEN given \o bytes ELSE given

no_flags == [fhcrc |-> FALSE, fextra |-> FALSE, fname |-> FALSE, fcomment |-> FALSE]

\* the handler's locals before ID1: the reader, the bytes of the fixed part
\* read so far, the hasher, the flags
header_start(r) ==
  [err |-> "None", r |-> r, fixed |-> <<>>, flg_bits |-> <<>>, mtime |-> u32_zero,
   h |-> u32_zero, given |-> <<>>, checked |-> FALSE, flags |-> no_flags]

\* the outcome of `read..()?` put in the locals
header_read(st, x) ==
  [st EXCEPT !.err = IF x.ok THEN "None" ELSE "UnexpectedEof", !.r = x.r]

\* read_u8 of ID1, ID2, CM with its check against the constant
expect_u8(st, x, want) ==
  IF st.err # "None" THEN st
  ELSE IF ~x.ok THEN header_read(st, x)
  ELSE [st EXCEPT !.r = x.r, !.fixed = Append(@, x.val),
                  !.err = IF x.val # want THEN "InvalidData" ELSE "None"]

read_id(st, want) == expect_u8(st, read_u8(st.r), want)

\* the FLG byte: read_exact of 8 bits, then `flg.reverse()`, then flg[1..=4]
flg_flags(flg_bits) ==
  [fhcrc |-> reverse(flg_bits)[2] = 1, fextra |-> reverse(flg_bits)[3] = 1,
   fname |-> reverse(flg_bits)[4] = 1, fcomment |-> reverse(flg_bits)[5] = 1]

\* `flg.load_le::<u8>()` after the reverse: the FLG byte given to the hasher
flg_hashed(flg_bits) == load_le(reverse(flg_bits))

set_flg(st, x) ==
  IF ~x.ok THEN header_read(st, x)
  ELSE [st EXCEPT !.r = x.r, !.flg_bits = x.bits, !.flags = flg_flags(x.bits)]

read_flg(st) == IF st.err # "None" THEN st ELSE set_flg(st, read_exact(st.r, 8))

set_mtime(st, x) ==
  IF ~x.ok THEN header_read(st, x) ELSE [st EXCEPT !.r = x.r, !.mtime = x.val]

read_mtime(st) == IF st.err # "None" THEN st ELSE set_mtime(st, read_u32(st.r))

set_byte(st, x) ==
  IF ~x.ok THEN header_read(st, x) ELSE [st EXCEPT !.r = x.r, !.fixed = Append(@, x.val)]

\* XFL, OS
read_byte(st) == IF st.err # "None" THEN st ELSE set_byte(st, read_u8(st.r))

\* `if fhcrc { hcrc_hasher.update(..) }` over ID1, ID2, CM, FLG, MTIME, XFL, OS
hash_fixed(st) ==
  IF st.err # "None" THEN st
  ELSE [st EXCEPT !.h = hcrc_update(st.flags.fhcrc, u32_zero,
                          << st.fixed[1], st.fixed[2], st.fixed[3],
                             flg_hashed(st.flg_bits) >>
                            \o to_le_bytes32(st.mtime)
                            \o << st.fixed[4], st.fixed[5] >>),
                  !.given = hcrc_given(st.flags.fhcrc, <<>>,
                              << st.fixed[1], st.fixed[2], st.fixed[3],
                                 flg_hashed(st.flg_bits) >>
                                \o to_le_bytes32(st.mtime)
                                \o << st.fixed[4], st.fixed[5] >>)]

hash_byte(st, x) ==
  IF ~x.ok THEN header_read(st, x)
  ELSE [st EXCEPT !.r = x.r, !.h = hcrc_update(st.flags.fhcrc, @, << x.val >>),
                  !.given = hcrc_given(st.flags.fhcrc, @, << x.val >>)]

\* `for _ in 0..xlen`: skip the extra field, hashing it under fhcrc
RECURSIVE skip_extra(_, _)
skip_extra(st, n) ==
  IF st.err # "None" \/ n = 0 THEN st
  ELSE skip_extra(hash_byte(st, read_u8(st.r)), n - 1)

skip_xlen(st, xlen) ==
  IF ~xlen.ok THEN header_read(st, xlen)
  ELSE skip_extra([st EXCEPT !.r = xlen.r,
                             !.h = hcrc_update(st.flags.fhcrc, @, to_le_bytes16(xlen.val)),
                             !.given = hcrc_given(st.flags.fhcrc, @,
                                                  to_le_bytes16(xlen.val))],
                  xlen.val)

\* `if fextra { .. }`
header_extra(st) ==
  IF st.err # "None" \/ ~st.flags.fextra THEN st ELSE skip_xlen(st, read_u16(st.r))

\* `loop { read_u8; if byte == 0 { break } }`: a zero-terminated string
RECURSIVE skip_string(_)
string_byte(st, x) ==
  IF ~x.ok \/ x.val = 0 THEN hash_byte(st, x) ELSE skip_string(hash_byte(st, x))

skip_string(st) == string_byte(st, read_u8(st.r))

\* `if fname { .. }`
header_name(st) ==
  IF st.err # "None" \/ ~st.flags.fname THEN st ELSE skip_string(st)

\* `if fcomment { .. }`
header_comment(st) ==
  IF st.err # "None" \/ ~st.flags.fcomment THEN st ELSE skip_string(st)

\* the CRC16 against the low 16 bits of the header's CRC-32
check_crc16(st, crc16) ==
  IF ~crc16.ok THEN header_read(st, crc16)
  ELSE [st EXCEPT !.r = crc16.r, !.checked = TRUE,
                  !.err = IF crc16.val # st.h.lo THEN "InvalidData" ELSE "None"]

\* `if fhcrc { .. }`
header_crc16(st) ==
  IF st.err # "None" \/ ~st.flags.fhcrc THEN st ELSE check_crc16(st, read_u16(st.r))

\* NewMember from ID1 to the CRC16
gzip_header(r) ==
  header_crc16(header_comment(header_name(header_extra(hash_fixed(
    read_byte(read_byte(read_mtime(read_flg(
      read_id(read_id(read_id(header_start(r), GZIP_ID1), GZIP_ID2),
              GZIP_CM_DEFLATE))))))))))

GzRunning == mode = "gzip" /\ err = "None"

\* no header CRC has been checked
no_hcrc == [checked |-> FALSE, given |-> <<>>, from |-> 0, to |-> 0]

\* the header CRC check of the header read after reader r0 with the locals h:
\* whether the CRC16 was read and compared, what the hasher was given, and
\* the input positions of ID1 and of the end of the CRC16
hcrc_of(r0, h) ==
  [checked |-> h.checked, given |-> h.given,
   from |-> r0.pos, to |-> h.r.pos]

deflate_state == << stage, is_final, encoding, pc, blk, cnt, cur, trees, out_buffer >>

\* advance_stage, DecodeStage::NewMember
GzipNewMember ==
  /\ GzRunning
  /\ gz.stage = "NewMember"
  /\ LET e == is_eof(rd)
         h == gzip_header(e.r)
     IN IF e.eof
        THEN /\ gz' = [gz EXCEPT !.stage = "Complete"]
             /\ rd' = e.r
             /\ err' = err
        ELSE /\ rd' = h.r
             /\ err' = h.err
             /\ gz' = IF h.err # "None"
                      THEN [gz EXCEPT !.hcrc = hcrc_of(rd, h)]
                      ELSE [gz EXCEPT !.stage = "DecodeDeflate", !.pc = "new",
                                      !.flg = load_le(h.flg_bits), !.flags = h.flags,
                                      !.header_start = rd.pos, !.header_end = h.r.pos,
                                      !.hcrc = hcrc_of(rd, h)]
  /\ UNCHANGED << mode, input, enc, enc_out, desc, calls, unit, out, cksum >>
  /\ UNCHANGED deflate_state

\* DecodeDeflate: OutWithChecksum::new(out) and DeflateDecoder::new()
GzipDecodeDeflateBegin ==
  /\ GzRunning
  /\ gz.stage = "DecodeDeflate" /\ gz.pc = "new"
  /\ cksum' = new_out_with_checksum
  /\ stage' = "NewBlock"
  /\ out_buffer' = new_out_buffer
  /\ gz' = [gz EXCEPT !.pc = "run", !.start = Len(out)]
  /\ UNCHANGED << mode, input, enc, enc_out, desc, calls, unit, out, err, rd >>
  /\ UNCHANGED << is_final, encoding, pc, blk, cnt, cur, trees >>

\* trailer_mismatch without the comparison of ISIZE
trailer_mismatch_crc_only(crc32, input_size, c) == crc32 # c.crc

\* the trailer's comparison: `crc32 != actual_crc32`, `input_size != actual_input_size`
trailer_mismatch(crc32, input_size, c) == crc32 # c.crc \/ input_size # c.size

\* DecodeDeflate after deflate_decoder.decode returned Ok: CRC32 and ISIZE
GzipDecodeDeflateEnd ==
  /\ GzRunning
  /\ gz.stage = "DecodeDeflate" /\ gz.pc = "run" /\ stage = "Complete"
  /\ LET crc32 == read_u32(rd)
         input_size == read_u32(crc32.r)
     IN IF ~crc32.ok \/ ~input_size.ok
        THEN /\ err' = "UnexpectedEof"
             /\ rd' = IF crc32.ok THEN input_size.r ELSE crc32.r
             /\ gz' = gz
        ELSE /\ rd' = input_size.r
             /\ IF trailer_mismatch(crc32.val, input_size.val, cksum)
                THEN err' = "InvalidData"
                     /\ gz' = [gz EXCEPT !.crc32 = crc32.val, !.isize = input_size.val]
                ELSE err' = err
                     /\ gz' = [gz EXCEPT !.stage = "NewMember", !.pc = "new",
                                         !.crc32 = crc32.val, !.isize = input_size.val]
  /\ UNCHANGED << mode, input, enc, enc_out, desc, calls, unit, out, cksum >>
  /\ UNCHANGED deflate_state

\* ------------------------------------------------------------------------
\* deflate.rs: DeflateEncoder
\* ------------------------------------------------------------------------

\* From<DeflateEncoding> for BitVec<u8>: from_element keeps all 8 bits
encoding_bits(encoding_) ==
  view_bits(IF encoding_ = "NoCompression" THEN 0
            ELSE IF encoding_ = "FixedHuffman" THEN 1 ELSE 2, 8)

\* header_byte with the final flag pushed after the encoding's bits: resize
\* then drops it
header_byte_flag_last(is_eof_) ==
  load_le(SubSeq(encoding_bits("NoCompression") \o << IF is_eof_ THEN 1 ELSE 0 >>, 1, 8))

\* header_bits: push(is_eof), extend with the encoding bits, resize(8, false)
header_byte(is_eof_) ==
  load_le(SubSeq(<< IF is_eof_ THEN 1 ELSE 0 >> \o encoding_bits("NoCompression"), 1, 8))

\* block_bytes with LEN written twice, the second not complemented
block_bytes_len_twice(buf, is_eof_) ==
  << header_byte(is_eof_) >>
    \o to_le_bytes16(Len(buf)) \o to_le_bytes16(Len(buf)) \o buf

\* the writes of one block: header, LEN, !LEN, buf[..len]
block_bytes(buf, is_eof_) ==
  << header_byte(is_eof_) >>
    \o to_le_bytes16(Len(buf)) \o to_le_bytes16(Not16(Len(buf))) \o buf

\* the bytes one `in_.read(&mut buf[len..])` may return (Ok(0) only at the end)
read_sizes(e) ==
  1..Min(MAX_BYTES_PER_BLOCK - Len(e.buf), Len(e.src) - e.pos)

EncRunning == mode = "encode" /\ err = "None" /\ enc.stage = "NewBlock"

decoder_state == << input, rd, out, cksum, gz, desc, calls, unit >>

\* advance_stage, NewBlock: a read that returns Ok(n), n > 0
EncodeRead ==
  /\ EncRunning
  /\ \E n \in read_sizes(enc) :
       LET buf == enc.buf \o SubSeq(enc.src, enc.pos + 1, enc.pos + n)
       IN IF Len(buf) = MAX_BYTES_PER_BLOCK
          THEN /\ enc_out' = enc_out \o block_bytes(buf, FALSE)
               /\ enc' = [enc EXCEPT !.pos = @ + n, !.buf = << >>]
          ELSE /\ enc_out' = enc_out
               /\ enc' = [enc EXCEPT !.pos = @ + n, !.buf = buf]
  /\ UNCHANGED << mode, err >>
  /\ UNCHANGED decoder_state
  /\ UNCHANGED deflate_state

\* EncodeReadEof that writes no block for an empty buffer
EncodeReadEof_skip_empty ==
  /\ EncRunning
  /\ enc.pos = Len(enc.src)
  /\ enc_out' = IF enc.buf = << >> THEN enc_out
                ELSE enc_out \o block_bytes(enc.buf, TRUE)
  /\ enc' = [enc EXCEPT !.stage = "Complete", !.buf = << >>]
  /\ UNCHANGED << mode, err >>
  /\ UNCHANGED decoder_state
  /\ UNCHANGED deflate_state

\* advance_stage, NewBlock: the read that returns Ok(0); the final block
EncodeReadEof ==
  /\ EncRunning
  /\ enc.pos = Len(enc.src)
  /\ enc_out' = enc_out \o block_bytes(enc.buf, TRUE)
  /\ enc' = [enc EXCEPT !.stage = "Complete", !.buf = << >>]
  /\ UNCHANGED << mode, err >>
  /\ UNCHANGED decoder_state
  /\ UNCHANGED deflate_state

\* the encoder's output is given to DeflateDecoder::decode
DecodeEncoded ==
  /\ mode = "encode" /\ err = "None" /\ enc.stage = "Complete"
  /\ mode' = "deflate"
  /\ input' = enc_out
  /\ UNCHANGED << rd, out, cksum, gz, desc, calls, unit, err, enc, enc_out >>
  /\ UNCHANGED deflate_state

\* ------------------------------------------------------------------------
\* The inputs: DEFLATE streams and gzip members put together from a
\* description, as RFC 1951 and RFC 1952 lay them out
\* ------------------------------------------------------------------------

\* most blocks of a described stream, a leading literal block not counted
MaxBlocks == 2

\* most bytes of an encoder's source beyond two full blocks
MaxSrcExtra == 1

\* the bytes payloads are made of
Alphabet == { 65, 66 }

pad8(bits) == bits \o [i \in 1..((8 - (Len(bits) % 8)) % 8) |-> 0]

byte_bits(v) == view_bits(v, 8)

RECURSIVE bytes_bits(_)
bytes_bits(bytes) ==
  IF bytes = <<>> THEN <<>> ELSE byte_bits(Head(bytes)) \o bytes_bits(Tail(bytes))

to_bytes(bits) ==
  [i \in 1..(Len(bits) \div 8) |-> load_le(SubSeq(bits, 8 * i - 7, 8 * i))]

\* a Huffman code on the wire: its most significant bit first
msb_first(v, n) == reverse(view_bits(v, n))

\* the fixed literal/length code of a symbol (RFC 1951, 3.2.6; the table of
\* test_fixed_literal_huffman)
fixed_code(sym) ==
  IF sym <= 143 THEN msb_first(48 + sym, 8)
  ELSE IF sym <= 255 THEN msb_first(400 + (sym - 144), 9)
  ELSE IF sym <= 279 THEN msb_first(sym - 256, 7)
  ELSE msb_first(192 + (sym - 280), 8)

Lit(b) == [k |-> "lit", b |-> b, l3 |-> 0, d1 |-> 0, msb |-> FALSE]
Ref(l3, d1) == [k |-> "ref", b |-> 0, l3 |-> l3, d1 |-> d1, msb |-> FALSE]

\* a symbol of a fixed block; the distance code's 5 bits go out most
\* significant bit first when sym.msb, least significant first otherwise
symbol_bits(sym) ==
  IF sym.k = "lit" THEN fixed_code(sym.b)
  ELSE LET lx == back_reference_length_extra_bits(sym.l3)
           dx == back_reference_distance_extra_bits(sym.d1)
           dc == back_reference_distance_code(sym.d1)
       IN fixed_code(back_reference_length_code(sym.l3))
            \o view_bits(sym.l3 % (2 ^ lx), lx)
            \o (IF sym.msb THEN msb_first(dc, 5) ELSE view_bits(dc, 5))
            \o view_bits(sym.d1 % (2 ^ dx), dx)

RECURSIVE symbols_bits(_)
symbols_bits(syms) ==
  IF syms = <<>> THEN <<>> ELSE symbol_bits(Head(syms)) \o symbols_bits(Tail(syms))

\* the code of the described dynamic blocks: the lengths of its
\* literal/length codes (65..68 have 3 bits, 256 and 257 have 2), of its
\* distance codes and of its code length codes, each indexed by symbol + 1
DYNAMIC_LITERAL_LENGTHS ==
  [s \in 1..258 |-> IF s - 1 \in 65..68 THEN 3
                    ELSE IF s - 1 \in 256..257 THEN 2 ELSE 0]

DYNAMIC_DISTANCE_LENGTHS == << 1, 1, 0, 0, 0 >>

DYNAMIC_ORDER_LENGTHS ==
  [s \in 1..19 |-> IF s - 1 \in { 1, 2, 3, 16 } THEN 3
                   ELSE IF s - 1 \in { 17, 18 } THEN 2 ELSE 0]

\* the two length lists as the block gives them: [code length symbol, the
\* value of its extra bits, how many extra bits]
DYNAMIC_LENGTH_ITEMS ==
  << << 18, 54, 7 >>, << 3, 0, 0 >>, << 16, 0, 2 >>, << 18, 127, 7 >>,
     << 18, 38, 7 >>, << 2, 0, 0 >>, << 2, 0, 0 >>,
     << 1, 0, 0 >>, << 1, 0, 0 >>, << 17, 0, 3 >> >>

\* the canonical code of RFC 1951, 3.2.2
RECURSIVE rfc_next_code(_, _)
rfc_next_code(lengths, n) ==
  IF n <= 1 THEN 0
  ELSE 2 * (rfc_next_code(lengths, n - 1)
              + Cardinality({ i \in 1..Len(lengths) : lengths[i] = n - 1 }))

rfc_code(lengths, sym) ==
  msb_first(rfc_next_code(lengths, lengths[sym + 1])
              + Cardinality({ i \in 1..sym : lengths[i] = lengths[sym + 1] }),
            lengths[sym + 1])

RECURSIVE length_items_bits(_)
length_items_bits(items) ==
  IF items = <<>> THEN <<>>
  ELSE rfc_code(DYNAMIC_ORDER_LENGTHS, Head(items)[1])
         \o view_bits(Head(items)[2], Head(items)[3])
         \o length_items_bits(Tail(items))

RECURSIVE order_bits(_)
order_bits(k) ==
  IF k = 0 THEN <<>>
  ELSE order_bits(k - 1)
         \o view_bits(DYNAMIC_ORDER_LENGTHS[DYNAMIC_CODE_LENGTH_SYMBOLS[k] + 1], 3)

\* HLIT, HDIST, HCLEN, the code length code and the two length lists
dynamic_header_bits ==
  view_bits(Len(DYNAMIC_LITERAL_LENGTHS) - 257, 5)
    \o view_bits(Len(DYNAMIC_DISTANCE_LENGTHS) - 1, 5)
    \o view_bits(18 - 4, 4)
    \o order_bits(18)
    \o length_items_bits(DYNAMIC_LENGTH_ITEMS)

\* a symbol of a dynamic block
dynamic_symbol_bits(sym) ==
  IF sym.k = "lit" THEN rfc_code(DYNAMIC_LITERAL_LENGTHS, sym.b)
  ELSE LET lx == back_reference_length_extra_bits(sym.l3)
           dx == back_reference_distance_extra_bits(sym.d1)
       IN rfc_code(DYNAMIC_LITERAL_LENGTHS, back_reference_length_code(sym.l3))
            \o view_bits(sym.l3 % (2 ^ lx), lx)
            \o rfc_code(DYNAMIC_DISTANCE_LENGTHS, back_reference_distance_code(sym.d1))
            \o view_bits(sym.d1 % (2 ^ dx), dx)

RECURSIVE dynamic_symbols_bits(_)
dynamic_symbols_bits(syms) ==
  IF syms = <<>> THEN <<>>
  ELSE dynamic_symbol_bits(Head(syms)) \o dynamic_symbols_bits(Tail(syms))

Stored(data) == [type |-> "stored", data |-> data, syms |-> <<>>, flip |-> -1]
Fixed(syms) == [type |-> "fixed", data |-> <<>>, syms |-> syms, flip |-> -1]
Dynamic(syms) == [type |-> "dynamic", data |-> <<>>, syms |-> syms, flip |-> -1]

\* LEN and NLEN of a stored block, with bit `flip` of the 32 inverted
len_nlen_bits(n, flip) ==
  LET good == view_bits(n, 16) \o view_bits(Not16(n), 16)
  IN [i \in 1..32 |-> IF i = flip + 1 THEN 1 - good[i] ELSE good[i]]

\* the bits of a block appended to the stream's bits so far
block_bits(acc, b, final) ==
  IF b.type = "stored"
  THEN pad8(acc \o << final, 0, 0 >>)
         \o len_nlen_bits(Len(b.data), b.flip) \o bytes_bits(b.data)
  ELSE IF b.type = "fixed"
  THEN acc \o << final, 1, 0 >> \o symbols_bits(b.syms) \o fixed_code(256)
  ELSE acc \o << final, 0, 1 >> \o dynamic_header_bits
         \o dynamic_symbols_bits(b.syms) \o rfc_code(DYNAMIC_LITERAL_LENGTHS, 256)

RECURSIVE stream_bits(_, _)
stream_bits(acc, blocks) ==
  IF blocks = <<>> THEN acc
  ELSE stream_bits(block_bits(acc, Head(blocks), IF Len(blocks) = 1 THEN 1 ELSE 0),
                   Tail(blocks))

\* the bytes of a DEFLATE stream: the last block is the final one
stream_bytes(blocks) == to_bytes(pad8(stream_bits(<<>>, blocks)))

\* what RFC 1951 says a stream decodes to; ok = FALSE when a distance
\* reaches before the start of the output
RECURSIVE copy_from(_, _, _)
copy_from(o, distance, n) ==
  IF n = 0 THEN o ELSE copy_from(Append(o, o[Len(o) + 1 - distance]), distance, n - 1)

RECURSIVE symbols_output(_, _)
symbols_output(o, syms) ==
  IF ~o.ok \/ syms = <<>> THEN o
  ELSE LET sym == Head(syms)
       IN symbols_output(
            IF sym.k = "lit" THEN [ok |-> TRUE, bytes |-> Append(o.bytes, sym.b)]
            ELSE IF sym.d1 + 1 > Len(o.bytes) THEN [ok |-> FALSE, bytes |-> o.bytes]
            ELSE [ok |-> TRUE, bytes |-> copy_from(o.bytes, sym.d1 + 1, sym.l3 + 3)],
            Tail(syms))

RECURSIVE stream_output(_, _)
stream_output(o, blocks) ==
  IF ~o.ok \/ blocks = <<>> THEN o
  ELSE LET b == Head(blocks)
       IN stream_output(
            IF b.type = "stored" THEN [ok |-> b.flip = -1, bytes |-> o.bytes \o b.data]
            ELSE symbols_output(o, b.syms),
            Tail(blocks))

\* the bodies blocks are drawn from
StoredBodies == { Stored(<<>>), Stored(<< 65 >>), Stored(<< 65, 66 >>) }

FixedBodies ==
  { Fixed(<<>>),
    Fixed(<< Lit(65) >>),
    Fixed(<< Lit(65), Lit(66) >>),
    Fixed(<< Lit(65), Ref(0, 0) >>),
    Fixed(<< Lit(65), Lit(66), Ref(1, 1) >>),
    Fixed(<< Ref(0, 0) >>),
    Fixed(<< Ref(0, 1) >>),
    Fixed(<< Ref(2, WINDOW_SIZE - 1) >>),
    Fixed(<< Ref(0, WINDOW_SIZE) >>) }

DynamicBodies ==
  { Dynamic(<<>>),
    Dynamic(<< Lit(65) >>),
    Dynamic(<< Lit(66), Ref(0, 0) >>),
    Dynamic(<< Ref(0, 1) >>) }

Bodies == StoredBodies \cup FixedBodies

RECURSIVE SeqsUpTo(_, _)
SeqsUpTo(S, n) ==
  IF n = 0 THEN { <<>> }
  ELSE LET shorter == SeqsUpTo(S, n - 1)
       IN shorter \cup { Append(q, x) : q \in { t \in shorter : Len(t) = n - 1 }, x \in S }

\* whole streams of one to MaxBlocks blocks
Streams == SeqsUpTo(Bodies, MaxBlocks) \ { <<>> }

\* streams whose last block is a stored block with one bit of LEN or NLEN
\* inverted
FlippedStreams ==
  { Append(q, [b EXCEPT !.flip = k]) :
      q \in SeqsUpTo({ Stored(<< 65 >>), Fixed(<< Lit(66) >>) }, MaxBlocks - 1),
      b \in StoredBodies, k \in 0..31 }

\* streams of one block more: a literal block, then MaxBlocks blocks that
\* may refer back to it
HistoryStreams ==
  { << Fixed(<< Lit(66) >>) >> \o q : q \in { t \in Streams : Len(t) = MaxBlocks } }

\* streams with a dynamic block first or last
DynamicStreams ==
  { Append(q, b) :
      q \in SeqsUpTo({ Stored(<< 65 >>), Fixed(<< Lit(66) >>) }, MaxBlocks - 1),
      b \in DynamicBodies }
  \cup
  { << b >> \o q :
      q \in SeqsUpTo({ Stored(<< 65 >>), Fixed(<< Lit(66) >>) }, MaxBlocks - 1),
      b \in DynamicBodies }

DeflateInputs ==
  { [kind |-> "stream", blocks |-> q, cut |-> 0] :
      q \in Streams \cup HistoryStreams \cup FlippedStreams \cup DynamicStreams }
  \cup
  { [kind |-> "stream", blocks |-> q, cut |-> c] :
      q \in { t \in Streams : Len(t) = 1 }, c \in 1..3 }

\* the bytes of a described input, `cut` bytes short
deflate_input(d) ==
  LET bytes == stream_bytes(d.blocks)
  IN SubSeq(bytes, 1, IF d.cut >= Len(bytes) THEN 0 ELSE Len(bytes) - d.cut)

\* the sources given to the encoder
Sources == SeqsUpTo(Alphabet, 2 * MAX_BYTES_PER_BLOCK + MaxSrcExtra)

\* the CRC-32 of a byte sequence
crc32_of(bytes) == hasher_update_all(u32_zero, bytes)

\* the length of a byte sequence as a u32
RECURSIVE size_of(_)
size_of(bytes) == IF bytes = <<>> THEN u32_zero ELSE wrapping_inc(size_of(Tail(bytes)))

\* a gzip member's header (RFC 1952, 2.3): FHCRC is bit 1 of FLG, FEXTRA
\* bit 2, FNAME bit 3, FCOMMENT bit 4
member_header(flg) ==
  LET fixed == << GZIP_ID1, GZIP_ID2, GZIP_CM_DEFLATE, flg, 0, 0, 0, 0, 0, 255 >>
      extra == IF Bit(flg, 2) = 1 THEN << 1, 0, 7 >> ELSE <<>>
      name == IF Bit(flg, 3) = 1 THEN << 97, 0 >> ELSE <<>>
      comment == IF Bit(flg, 4) = 1 THEN << 98, 0 >> ELSE <<>>
      fields == fixed \o extra \o name \o comment
  IN fields \o (IF Bit(flg, 1) = 1 THEN to_le_bytes16(crc32_of(fields).lo) ELSE <<>>)

\* a member's trailer: CRC32 and ISIZE of the payload, or one of them wrong
member_trailer(payload, trailer) ==
  LET crc == crc32_of(payload)
      size == size_of(payload)
  IN to_le_bytes32(IF trailer = "badcrc" THEN Xor32(crc, [lo |-> 1, hi |-> 0]) ELSE crc)
       \o to_le_bytes32(IF trailer = "badsize" THEN wrapping_inc(size) ELSE size)

member_payload(m) == stream_output([ok |-> TRUE, bytes |-> <<>>], m.body).bytes

member_bytes(m) ==
  member_header(m.flg) \o stream_bytes(m.body)
    \o member_trailer(member_payload(m), m.trailer)

RECURSIVE members_bytes(_)
members_bytes(ms) ==
  IF ms = <<>> THEN <<>> ELSE member_bytes(Head(ms)) \o members_bytes(Tail(ms))

RECURSIVE members_payload(_)
members_payload(ms) ==
  IF ms = <<>> THEN <<>> ELSE member_payload(Head(ms)) \o members_payload(Tail(ms))

Member(flg, body, trailer) == [flg |-> flg, body |-> body, trailer |-> trailer]

GzipBodies ==
  { << Stored(<<>>) >>,
    << Fixed(<< Lit(65), Ref(0, 0) >>) >>,
    << Stored(<< 65 >>), Fixed(<< Ref(0, 0) >>) >>,
    << Fixed(<< Lit(65) >>), Stored(<< 66 >>) >> }

Flgs == { 0, 1, 2, 4, 8, 16, 30, 32, 64, 66, 67, 128 }

Trailers == { "good", "badcrc", "badsize" }

FirstMembers == { Member(f, b, t) : f \in Flgs, b \in GzipBodies, t \in Trailers }

LaterMembers ==
  { Member(0, b, t) : b \in { << Stored(<<>>) >>, << Fixed(<< Lit(66) >>) >> },
                      t \in Trailers }

GzipInputs ==
  { [kind |-> "members", members |-> <<>>, cut |-> 0] }
  \cup { [kind |-> "members", members |-> << m >>, cut |-> 0] : m \in FirstMembers }
  \cup { [kind |-> "members", members |-> << m, n >>, cut |-> 0] :
           m \in { x \in FirstMembers : x.flg \in { 0, 8 } /\ x.trailer = "good" },
           n \in LaterMembers }
  \cup { [kind |-> "members", members |-> << m >>, cut |-> c] :
           m \in { Member(f, << Fixed(<< Lit(65), Ref(0, 0) >>) >>, "good") : f \in { 0, 30 } },
           c \in 1..12 }

gzip_input(d) ==
  LET bytes == members_bytes(d.members)
  IN SubSeq(bytes, 1, Len(bytes) - d.cut)

\* ------------------------------------------------------------------------
\* The specification
\* ------------------------------------------------------------------------

\* nothing is run on its own
no_unit == [kind |-> "none"]

\* main.rs: one of the three commands runs, on a fresh decoder or encoder
Init ==
  /\ rd = new_read
  /\ stage = "NewBlock"
  /\ is_final = FALSE
  /\ encoding = "NoCompression"
  /\ pc = "dispatch"
  /\ blk = [len |-> 0, nlen |-> 0, start |-> 0]
  /\ cnt = 0
  /\ cur = [l3 |-> 0, d1 |-> 0, start |-> 0, held |-> 0]
  /\ trees = fixed_trees
  /\ out_buffer = new_out_buffer
  /\ out = <<>>
  /\ cksum = new_out_with_checksum
  /\ err = "None"
  /\ gz = [stage |-> "NewMember", pc |-> "new", flg |-> 0,
           flags |-> no_flags,
           header_start |-> 0, header_end |-> 0, start |-> 0,
           crc32 |-> u32_zero, isize |-> u32_zero, hcrc |-> no_hcrc]
  /\ enc_out = <<>>
  /\ calls = 0
  /\ unit = no_unit
  /\ \/ /\ mode = "encode"
        /\ \E src \in Sources : enc = [stage |-> "NewBlock", src |-> src, pos |-> 0,
                                       buf |-> <<>>]
        /\ input = <<>>
        /\ desc = [kind |-> "source"]
     \/ /\ mode = "deflate"
        /\ \E d \in DeflateInputs : desc = d /\ input = deflate_input(d)
        /\ enc = [stage |-> "NewBlock", src |-> <<>>, pos |-> 0, buf |-> <<>>]
     \/ /\ mode = "gzip"
        /\ \E d \in GzipInputs : desc = d /\ input = gzip_input(d)
        /\ enc = [stage |-> "NewBlock", src |-> <<>>, pos |-> 0, buf |-> <<>>]

Next ==
  \/ DecodeNewBlock
  \/ DecodeStoredHeader
  \/ DecodeStoredByte
  \/ DecodeFixedHuffman
  \/ DecodeDynamicHuffman
  \/ DecodeSymbol
  \/ DecodeBackReferenceByte
  \/ DecodeEndBlock
  \/ DecodeAgain
  \/ GzipNewMember
  \/ GzipDecodeDeflateBegin
  \/ GzipDecodeDeflateEnd
  \/ EncodeRead
  \/ EncodeReadEof
  \/ DecodeEncoded

Spec == Init /\ [][Next]_vars

\* ------------------------------------------------------------------------
\* Properties of DeflateEncoder and of the round trip
\* ------------------------------------------------------------------------

\* a is the start of b
IsPrefix(a, b) == Len(a) <= Len(b) /\ SubSeq(b, 1, Len(a)) = a

\* the run encodes a source and then decodes what the encoder wrote
RoundTripRun == desc.kind = "source"

\* C1: encoding any source S with DeflateEncoder and decoding the produced
\* bytes with DeflateDecoder never fails, emits a prefix of S at every
\* moment, and when the decoder completes it has emitted exactly S and has
\* read all the encoder wrote
RoundTrip ==
  RoundTripRun =>
    /\ err = "None"
    /\ mode = "deflate" =>
         /\ IsPrefix(out, enc.src)
         /\ stage = "Complete" => out = enc.src /\ rd.pos = Len(input)

\* C1 witness: a source longer than one block came back whole
RoundTripAcrossBlocks ==
  /\ RoundTripRun /\ mode = "deflate" /\ stage = "Complete" /\ err = "None"
  /\ Len(enc.src) > MAX_BYTES_PER_BLOCK
  /\ out = enc.src

\* the blocks written so far, read back from the encoder's output: a header
\* byte, two little-endian u16, then as many bytes as the first u16 says
RECURSIVE emitted_blocks(_)
emitted_blocks(bytes) ==
  IF bytes = <<>> THEN [ok |-> TRUE, blocks |-> <<>>]
  ELSE IF Len(bytes) < 5 \/ Len(bytes) < 5 + bytes[2] + 256 * bytes[3]
  THEN [ok |-> FALSE, blocks |-> <<>>]
  ELSE LET rest == emitted_blocks(SubSeq(bytes, 6 + bytes[2] + 256 * bytes[3], Len(bytes)))
       IN [ok |-> rest.ok,
           blocks |-> << [header |-> bytes[1],
                          len |-> bytes[2] + 256 * bytes[3],
                          nlen |-> bytes[4] + 256 * bytes[5],
                          data |-> SubSeq(bytes, 6, 5 + bytes[2] + 256 * bytes[3])] >>
                        \o rest.blocks]

RECURSIVE blocks_data(_)
blocks_data(blocks) ==
  IF blocks = <<>> THEN <<>> ELSE Head(blocks).data \o blocks_data(Tail(blocks))

\* what C7 says of the blocks written so far
well_formed_blocks(blocks) ==
  /\ \A i \in 1..Len(blocks) :
       /\ blocks[i].header = IF enc.stage = "Complete" /\ i = Len(blocks) THEN 1 ELSE 0
       /\ blocks[i].nlen = 65535 - blocks[i].len
       /\ Len(blocks[i].data) = blocks[i].len
  /\ enc.stage = "Complete" => Len(blocks) >= 1 /\ blocks_data(blocks) = enc.src
  /\ enc.stage # "Complete" =>
       blocks_data(blocks) \o enc.buf = SubSeq(enc.src, 1, enc.pos)

\* C7: every block the encoder emits is a header byte 0x01 (last block) or
\* 0x00 (any other), LEN and ~LEN as little-endian u16 and LEN raw bytes;
\* only the last block emitted has the final flag, and the blocks' raw bytes
\* in order are the source bytes
EncodedBlockFormat ==
  RoundTripRun =>
    /\ emitted_blocks(enc_out).ok
    /\ well_formed_blocks(emitted_blocks(enc_out).blocks)

\* C7 witness: the encoder finished after a full block and a shorter last one
EncodedTwoBlocks ==
  /\ RoundTripRun /\ enc.stage = "Complete"
  /\ Len(emitted_blocks(enc_out).blocks) = 2
  /\ emitted_blocks(enc_out).blocks[2].len > 0

\* what C8 says of the blocks of a whole encoding of n bytes
counted_blocks(blocks, n) ==
  /\ Len(blocks) = (n \div MAX_BYTES_PER_BLOCK) + 1
  /\ \A i \in 1..(Len(blocks) - 1) : blocks[i].len = MAX_BYTES_PER_BLOCK
  /\ blocks[Len(blocks)].len = 0 <=> n % MAX_BYTES_PER_BLOCK = 0

\* C8: for a source of N bytes, whatever the sizes of the reads, the encoder
\* emits floor(N / MAX_BYTES_PER_BLOCK) + 1 blocks, every block but the last
\* is full, and the last one is empty exactly when N is a multiple of
\* MAX_BYTES_PER_BLOCK
EncodedBlockCount ==
  RoundTripRun /\ enc.stage = "Complete" =>
    /\ emitted_blocks(enc_out).ok
    /\ counted_blocks(emitted_blocks(enc_out).blocks, Len(enc.src))

\* C8 witness: a source of two full blocks ended with an empty final block
EncodedTrailingEmptyBlock ==
  /\ RoundTripRun /\ enc.stage = "Complete"
  /\ Len(enc.src) = 2 * MAX_BYTES_PER_BLOCK
  /\ Len(emitted_blocks(enc_out).blocks) = 3
  /\ emitted_blocks(enc_out).blocks[3].len = 0

\* ------------------------------------------------------------------------
\* Properties of DeflateDecoder's error handling
\* ------------------------------------------------------------------------

\* the decoder has just refused a stored block's LEN and NLEN
StoredHeaderRejected ==
  /\ stage = "ParsedMode" /\ encoding = "NoCompression" /\ pc = "dispatch"
  /\ err = "InvalidData"

\* LEN and NLEN as the four bytes the reader has just passed
header_at_reader ==
  /\ rd.pos >= 4
  /\ blk.len = input[rd.pos - 3] + 256 * input[rd.pos - 2]
  /\ blk.nlen = input[rd.pos - 1] + 256 * input[rd.pos]

\* the described stream ends in a stored block with one bit of LEN or NLEN
\* inverted
FlippedRun ==
  /\ mode = "deflate" /\ desc.kind = "stream"
  /\ desc.blocks[Len(desc.blocks)].flip >= 0

\* what the blocks before the last one decode to
output_before_last ==
  stream_output([ok |-> TRUE, bytes |-> <<>>],
                SubSeq(desc.blocks, 1, Len(desc.blocks) - 1)).bytes

\* C4: the bytes of a stored block are copied only when NLEN = ~LEN & 0xFFFF;
\* when NLEN differs the decoder fails with InvalidData having emitted no
\* byte of the block; a stream whose last stored block has any one bit of
\* LEN or NLEN inverted never completes and fails with InvalidData at that
\* block, after the output of the blocks before it
StoredLenCheck ==
  /\ stage = "ParsedMode" /\ pc = "stored" => blk.nlen = 65535 - blk.len
  /\ StoredHeaderRejected =>
       /\ header_at_reader
       /\ blk.nlen # 65535 - blk.len
       /\ Len(out) = blk.start
  /\ FlippedRun =>
       /\ stage # "Complete"
       /\ err \in { "None", "InvalidData" }
       /\ err = "InvalidData" => StoredHeaderRejected /\ out = output_before_last

\* C4 witness: a block with a bit of NLEN inverted was refused after an
\* earlier block's output
FlippedNlenRejected ==
  /\ FlippedRun /\ StoredHeaderRejected
  /\ desc.blocks[Len(desc.blocks)].flip >= 16
  /\ Len(desc.blocks[Len(desc.blocks)].data) > 0
  /\ Len(out) > 0 /\ Len(out) = blk.start

\* C10: a back-reference whose distance is more than the bytes held in the
\* window fails with InvalidData at its first byte: nothing was emitted for
\* it and the sink keeps what it had
BackReferenceBeyondWindow ==
  [][(DeflateRunning /\ stage = "ParsedMode" /\ pc = "backref"
        /\ cur.d1 + 1 > out_buffer.len)
       => (err' = "InvalidData" /\ out' = out /\ Len(out) = cur.start)]_vars

\* C10 witness: a back-reference reaching before the held bytes failed after
\* some output
BackReferenceMissed ==
  /\ stage = "ParsedMode" /\ pc = "backref" /\ err = "InvalidData"
  /\ cur.d1 + 1 > out_buffer.len
  /\ out_buffer.len > 0
  /\ Len(out) = cur.start

\* ------------------------------------------------------------------------
\* Properties of GzipDecoder
\* ------------------------------------------------------------------------

\* the bytes emitted for the member being decoded
member_out == SubSeq(out, gz.start + 1, Len(out))

\* CRC32 and ISIZE as the eight bytes the reader has just passed
trailer_at_reader ==
  /\ rd.pos >= 8
  /\ SubSeq(input, rd.pos - 7, rd.pos)
       = to_le_bytes32(gz.crc32) \o to_le_bytes32(gz.isize)

\* the member's trailer was read and accepted
TrailerAccepted == gz.stage = "NewMember" /\ err = "None" /\ rd.pos > 0

\* the member's trailer was read and refused
TrailerRejected ==
  /\ gz.stage = "DecodeDeflate" /\ gz.pc = "run" /\ stage = "Complete"
  /\ err = "InvalidData"

\* C5: after a member's DEFLATE stream the decoder reads CRC32 and ISIZE as
\* little-endian u32; it goes back to NewMember only when they are the
\* CRC-32 and the count of the bytes emitted for this member, and fails with
\* InvalidData when one of them differs
GzipTrailerCheck ==
  mode = "gzip" =>
    /\ TrailerAccepted =>
         /\ trailer_at_reader
         /\ gz.crc32 = crc32_of(member_out) /\ gz.isize = size_of(member_out)
    /\ TrailerRejected =>
         /\ trailer_at_reader
         /\ gz.crc32 # crc32_of(member_out) \/ gz.isize # size_of(member_out)

\* C5 witness: the trailer of a second member with output of its own was
\* accepted
SecondTrailerAccepted ==
  /\ mode = "gzip" /\ TrailerAccepted
  /\ gz.start > 0 /\ Len(out) > gz.start

\* ------------------------------------------------------------------------
\* Properties of the sliding window
\* ------------------------------------------------------------------------

\* a DEFLATE stream is being decoded
InStream ==
  mode = "deflate" \/ (mode = "gzip" /\ gz.stage = "DecodeDeflate" /\ gz.pc = "run")

\* where this stream's output starts in the sink
stream_start == IF mode = "gzip" THEN gz.start ELSE 0

\* the bytes emitted for this stream
stream_out == SubSeq(out, stream_start + 1, Len(out))

\* the bytes the window holds, oldest first
window_bytes(ob) == [i \in 1..ob.len |-> get(ob, ob.len - i)]

\* the last n elements of s
last_bytes(s, n) == SubSeq(s, Len(s) - n + 1, Len(s))

\* C2: while a stream is decoded the window holds the most recent
\* min(n, WINDOW_SIZE) of the n bytes emitted for it, whatever the types of
\* the blocks that emitted them, so that a back-reference fails only when
\* its distance is more than that count
WindowHoldsRecentOutput ==
  InStream =>
    /\ window_bytes(out_buffer)
         = last_bytes(stream_out, Min(Len(stream_out), WINDOW_SIZE))
    /\ (stage = "ParsedMode" /\ pc = "backref" /\ err = "InvalidData") =>
         cur.d1 + 1 > Min(cur.start - stream_start, WINDOW_SIZE)

\* C9: a back-reference with at least D1 + 1 bytes in the window does not
\* fail, has emitted L3 + 3 bytes less those still to copy, and each byte it
\* emitted is the output byte D1 + 1 positions before it
BackReferenceCopies ==
  (InStream /\ stage = "ParsedMode" /\ pc = "backref" /\ cur.held >= cur.d1 + 1) =>
    /\ err = "None"
    /\ Len(out) = cur.start + (cur.l3 + 3 - cnt)
    /\ \A i \in (cur.start + 1)..Len(out) : out[i] = out[i - (cur.d1 + 1)]

\* ------------------------------------------------------------------------
\* Properties of the gzip member header and of whole gzip inputs
\* ------------------------------------------------------------------------

\* the header of the described input's first member has been gone through
FirstHeaderRead ==
  /\ mode = "gzip" /\ desc.members # <<>> /\ desc.cut = 0
  /\ rd.pos > 0 /\ gz.header_start = 0

\* C3: the header of a member is accepted and the decoder consumes the ten
\* fixed bytes, then the fields FLG bits 1-4 announce (bit 2 XLEN and the
\* extra field, bit 3 a name, bit 4 a comment, bit 1 the CRC16) and nothing
\* for bits 0 and 5-7
FlgBitsDecideFields ==
  FirstHeaderRead => gz.header_end = Len(member_header(desc.members[1].flg))

\* a member whose DEFLATE stream is valid and whose trailer matches
valid_member(m) ==
  m.trailer = "good" /\ stream_output([ok |-> TRUE, bytes |-> <<>>], m.body).ok

\* decode has returned
GzipReturned == mode = "gzip" /\ (err # "None" \/ gz.stage = "Complete")

\* C6: decode returns Ok exactly for whole valid members up to the end of
\* the input, and then the output is the members' payloads in input order
GzipAcceptsValidMembers ==
  GzipReturned =>
    /\ err = "None" <=>
         (desc.cut = 0 /\ \A i \in 1..Len(desc.members) : valid_member(desc.members[i]))
    /\ err = "None" => out = members_payload(desc.members)

\* ------------------------------------------------------------------------
\* Functions and types run on their own: a BitReader over `input`, and in
\* `unit` what was given to the function and what it returned
\* ------------------------------------------------------------------------

\* the decoders and the encoder stay as constructed
idle == << mode, stage, is_final, encoding, pc, blk, cnt, cur, trees, out_buffer,
           out, cksum, err, gz, enc, enc_out, desc, calls >>

UnitInit(u) ==
  /\ mode = "unit"
  /\ input = <<>>
  /\ rd = new_read
  /\ stage = "NewBlock"
  /\ is_final = FALSE
  /\ encoding = "NoCompression"
  /\ pc = "dispatch"
  /\ blk = [len |-> 0, nlen |-> 0, start |-> 0]
  /\ cnt = 0
  /\ cur = [l3 |-> 0, d1 |-> 0, start |-> 0, held |-> 0]
  /\ trees = fixed_trees
  /\ out_buffer = new_out_buffer
  /\ out = <<>>
  /\ cksum = new_out_with_checksum
  /\ err = "None"
  /\ gz = [stage |-> "NewMember", pc |-> "new", flg |-> 0,
           flags |-> no_flags,
           header_start |-> 0, header_end |-> 0, start |-> 0,
           crc32 |-> u32_zero, isize |-> u32_zero, hcrc |-> no_hcrc]
  /\ enc = [stage |-> "NewBlock", src |-> <<>>, pos |-> 0, buf |-> <<>>]
  /\ enc_out = <<>>
  /\ desc = [kind |-> "unit"]
  /\ calls = 0
  /\ unit = u

\* the bits the reader has handed out since it was made
bits_taken(r) == IF r.pos = 0 THEN 0 ELSE 8 * (r.pos - 1) + r.idx

\* bits, then `fill` up to the end of the byte, as bytes
filled_bytes(bits, fill) ==
  to_bytes(bits \o [i \in 1..((8 - (Len(bits) % 8)) % 8) |-> fill])

\* ------------------------------------------------------------------------
\* HuffmanTree on its own: a tree from a vector of code lengths, then the
\* canonical code of one of its symbols decoded
\* ------------------------------------------------------------------------

\* most entries of a code length vector
MaxSymbols == 4

\* longest code of a code length vector
MaxCodeLength == 3

\* RFC 1951, 3.2.2: the lengths do not claim more codes than there are
not_over_subscribed(code_lengths, longest) ==
  LET RECURSIVE claimed(_)
      claimed(i) ==
        IF i = 0 THEN 0
        ELSE claimed(i - 1)
               + (IF code_lengths[i] > 0 THEN 2 ^ (longest - code_lengths[i]) ELSE 0)
  IN claimed(Len(code_lengths)) <= 2 ^ longest

CodeLengthVectors ==
  { v \in UNION { [1..n -> 0..MaxCodeLength] : n \in 1..MaxSymbols } :
      /\ not_over_subscribed(v, MaxCodeLength)
      /\ \E i \in DOMAIN v : v[i] > 0 }
  \cup { FIXED_LITERAL_CODE_LENGTHS }

HuffmanInit ==
  \E v \in CodeLengthVectors :
    UnitInit([kind |-> "huffman", pc |-> "new", code_lengths |-> v,
              tree |-> no_tree, symbol |-> 0, err |-> "None", val |-> 0])

HuffmanRunning == mode = "unit" /\ unit.kind = "huffman"

\* HuffmanTree::from_code_lengths(&code_lengths)
HuffmanFromCodeLengths ==
  /\ HuffmanRunning /\ unit.pc = "new"
  /\ unit' = [unit EXCEPT !.pc = "built", !.tree = from_code_lengths(unit.code_lengths)]
  /\ UNCHANGED << input, rd >>
  /\ UNCHANGED idle

\* a reader over the canonical code of a symbol the vector gives a code to,
\* the rest of the last byte all zeros or all ones
HuffmanSource ==
  /\ HuffmanRunning /\ unit.pc = "built"
  /\ \E s \in 0..(Len(unit.code_lengths) - 1), fill \in 0..1 :
       /\ unit.code_lengths[s + 1] > 0
       /\ input' = filled_bytes(rfc_code(unit.code_lengths, s), fill)
       /\ unit' = [unit EXCEPT !.pc = "source", !.symbol = s]
  /\ rd' = new_read
  /\ UNCHANGED idle

\* tree.decode(&mut in_)
HuffmanDecode ==
  /\ HuffmanRunning /\ unit.pc = "source"
  /\ rd' = decode(unit.tree, rd).r
  /\ unit' = [unit EXCEPT !.pc = "decoded", !.err = decode(unit.tree, rd).err,
                          !.val = decode(unit.tree, rd).val]
  /\ UNCHANGED input
  /\ UNCHANGED idle

HuffmanNext ==
  \/ HuffmanFromCodeLengths
  \/ HuffmanSource
  \/ HuffmanDecode

HuffmanSpec == HuffmanInit /\ [][HuffmanNext]_vars

\* C11: a tree built from a code length vector that is not over-subscribed,
\* zero lengths allowed, decodes the RFC 1951 canonical code of every symbol
\* with a non-zero length, most significant bit first, to that symbol, after
\* reading exactly as many bits as the symbol's length; for the fixed
\* literal/length vector the canonical codes are those of RFC 1951, 3.2.6
CanonicalCodeDecodes ==
  (HuffmanRunning /\ unit.pc = "decoded") =>
    /\ unit.err = "None"
    /\ unit.val = unit.symbol
    /\ bits_taken(rd) = unit.code_lengths[unit.symbol + 1]
    /\ unit.code_lengths = FIXED_LITERAL_CODE_LENGTHS =>
         rfc_code(unit.code_lengths, unit.symbol) = fixed_code(unit.symbol)

\* C11 witness: a symbol that follows a zero-length entry, and is not the
\* first of its length, was decoded
DecodedAfterZeroLength ==
  /\ HuffmanRunning /\ unit.pc = "decoded" /\ unit.val = unit.symbol
  /\ unit.symbol >= 2
  /\ unit.code_lengths[unit.symbol] = 0
  /\ unit.code_lengths[1] = unit.code_lengths[unit.symbol + 1]

\* ------------------------------------------------------------------------
\* The LZSS codes on their own: a length or a distance is given its code by
\* lzss.rs, the code and its extra bits are put in a fixed block's symbol,
\* and parse_symbol reads the symbol back
\* ------------------------------------------------------------------------

\* expected_lengths_by_code: the first and the last length of the codes
\* 257..285
LENGTH_RANGES ==
  << << 3, 3 >>, << 4, 4 >>, << 5, 5 >>, << 6, 6 >>, << 7, 7 >>, << 8, 8 >>,
     << 9, 9 >>, << 10, 10 >>, << 11, 12 >>, << 13, 14 >>, << 15, 16 >>,
     << 17, 18 >>, << 19, 22 >>, << 23, 26 >>, << 27, 30 >>, << 31, 34 >>,
     << 35, 42 >>, << 43, 50 >>, << 51, 58 >>, << 59, 66 >>, << 67, 82 >>,
     << 83, 98 >>, << 99, 114 >>, << 115, 130 >>, << 131, 162 >>,
     << 163, 194 >>, << 195, 226 >>, << 227, 257 >>, << 258, 258 >> >>

\* expected_distances_by_code: the first and the last distance of the codes
\* 0..29
DISTANCE_RANGES ==
  << << 1, 1 >>, << 2, 2 >>, << 3, 3 >>, << 4, 4 >>, << 5, 6 >>, << 7, 8 >>,
     << 9, 12 >>, << 13, 16 >>, << 17, 24 >>, << 25, 32 >>, << 33, 48 >>,
     << 49, 64 >>, << 65, 96 >>, << 97, 128 >>, << 129, 192 >>,
     << 193, 256 >>, << 257, 384 >>, << 385, 512 >>, << 513, 768 >>,
     << 769, 1024 >>, << 1025, 1536 >>, << 1537, 2048 >>, << 2049, 3072 >>,
     << 3073, 4096 >>, << 4097, 6144 >>, << 6145, 8192 >>, << 8193, 12288 >>,
     << 12289, 16384 >>, << 16385, 24576 >>, << 24577, 32768 >> >>

\* the distances below this one are all tried; above it, the two ends of
\* every code's range and their neighbours
MaxDenseDistance == 1100

Lengths == 0..255

Distances ==
  (0..(MaxDenseDistance - 1))
    \cup { d \in UNION { { DISTANCE_RANGES[c][1] - 1 + k, DISTANCE_RANGES[c][2] - 1 - k } :
                           c \in 1..Len(DISTANCE_RANGES), k \in 0..2 } :
           d \in 0..32767 }

\* a distance tree of thirty codes of five bits
five_bit_distances == from_code_lengths([i \in 1..30 |-> 5])

\* what is known of a value before lzss.rs has coded it
uncoded(of, value) ==
  [kind |-> "lzss", of |-> of, pc |-> "new", value |-> value, given |-> FALSE,
   code |-> 0, extra_bits |-> 0, parsed |-> Parsed("None", "None", 0, 0, 0, new_read)]

\* the one code and extra bits that lzss.rs gives to no value: 284 with all
\* five extra bits set
LzssInit ==
  \/ \E l \in Lengths : UnitInit(uncoded("length", l))
  \/ \E d \in Distances : UnitInit(uncoded("distance", d))
  \/ UnitInit([uncoded("length", 255) EXCEPT !.pc = "coded", !.given = TRUE,
                                             !.code = 284, !.extra_bits = 5])

LzssRunning == mode = "unit" /\ unit.kind = "lzss"

\* Symbol::back_reference_length_code and _length_extra_bits, or
\* _distance_code and _distance_extra_bits, of the value
LzssCode ==
  /\ LzssRunning /\ unit.pc = "new"
  /\ unit' = IF unit.of = "length"
             THEN [unit EXCEPT !.pc = "coded",
                               !.code = back_reference_length_code(unit.value),
                               !.extra_bits = back_reference_length_extra_bits(unit.value)]
             ELSE [unit EXCEPT !.pc = "coded",
                               !.code = back_reference_distance_code(unit.value),
                               !.extra_bits = back_reference_distance_extra_bits(unit.value)]
  /\ UNCHANGED << input, rd >>
  /\ UNCHANGED idle

\* the value less the first value of its code's range
extra_value(u) ==
  IF u.of = "length" THEN u.value + 3 - LENGTH_RANGES[u.code - 256][1]
  ELSE u.value + 1 - DISTANCE_RANGES[u.code + 1][1]

\* the symbol on the wire: a length's code and extra bits before the
\* distance 1, or a distance's code and extra bits after the length 3
symbol_source(u) ==
  IF u.of = "length"
  THEN fixed_code(u.code) \o view_bits(extra_value(u), u.extra_bits) \o msb_first(0, 5)
  ELSE fixed_code(257) \o msb_first(u.code, 5) \o view_bits(extra_value(u), u.extra_bits)

\* a reader over the symbol, the rest of the last byte all ones
LzssSource ==
  /\ LzssRunning /\ unit.pc = "coded"
  /\ input' = filled_bytes(symbol_source(unit), 1)
  /\ rd' = new_read
  /\ unit' = [unit EXCEPT !.pc = "source"]
  /\ UNCHANGED idle

\* parse_symbol(&fixed_literal, &DistanceEncoding::Dynamic(tree), &mut in_)
LzssParse ==
  /\ LzssRunning /\ unit.pc = "source"
  /\ rd' = parse_symbol(fixed_literal,
                        [kind |-> "Dynamic", tree |-> five_bit_distances], rd).r
  /\ unit' = [unit EXCEPT !.pc = "parsed",
                          !.parsed = parse_symbol(fixed_literal,
                                       [kind |-> "Dynamic", tree |-> five_bit_distances],
                                       rd)]
  /\ UNCHANGED input
  /\ UNCHANGED idle

LzssNext ==
  \/ LzssCode
  \/ LzssSource
  \/ LzssParse

LzssSpec == LzssInit /\ [][LzssNext]_vars

\* C12: back_reference_length_code gives every length 3..258 the code whose
\* range in the table of test_back_reference_length_codes holds it (285 for
\* 258 alone), and back_reference_distance_code gives every distance
\* 1..32768 the code whose range in the table of
\* test_back_reference_distance_codes holds it
CodesFollowTables ==
  (LzssRunning /\ unit.pc # "new" /\ ~unit.given) =>
    /\ unit.of = "length" =>
         /\ unit.code \in 257..285
         /\ LENGTH_RANGES[unit.code - 256][1] <= unit.value + 3
         /\ unit.value + 3 <= LENGTH_RANGES[unit.code - 256][2]
    /\ unit.of = "distance" =>
         /\ unit.code \in 0..29
         /\ DISTANCE_RANGES[unit.code + 1][1] <= unit.value + 1
         /\ unit.value + 1 <= DISTANCE_RANGES[unit.code + 1][2]

\* C12 witness: the length 258 was given the code 285
Length258Coded ==
  LzssRunning /\ unit.pc = "coded" /\ unit.of = "length" /\ unit.value = 255
    /\ ~unit.given /\ unit.code = 285

\* C13: parse_symbol reads a length's code and exactly its extra bits back
\* to the length, and a distance's code and exactly its extra bits back to
\* the distance; what it returns fits a u8 (length_minus_three) and
\* 0..32767 (distance_minus_one)
ParseInvertsCodes ==
  (LzssRunning /\ unit.pc = "parsed") =>
    /\ unit.parsed.err = "None" /\ unit.parsed.kind = "BackReference"
    /\ unit.parsed.l3 \in 0..255 /\ unit.parsed.d1 \in 0..32767
    /\ unit.of = "length" =>
         /\ unit.parsed.l3 = unit.value /\ unit.parsed.d1 = 0
         /\ bits_taken(rd) = Len(fixed_code(unit.code)) + unit.extra_bits + 5
    /\ unit.of = "distance" =>
         /\ unit.parsed.d1 = unit.value /\ unit.parsed.l3 = 0
         /\ bits_taken(rd) = Len(fixed_code(257)) + 5 + unit.extra_bits

\* C13 witness: the distance 32768 came back through thirteen extra bits
LargestDistanceParsed ==
  LzssRunning /\ unit.pc = "parsed" /\ unit.of = "distance" /\ unit.value = 32767
    /\ unit.extra_bits = 13 /\ unit.parsed.d1 = 32767

\* ------------------------------------------------------------------------
\* Properties of the gzip header CRC
\* ------------------------------------------------------------------------

\* the header CRC check was made: the CRC16 was read and compared
HeaderCrcChecked == mode = "gzip" /\ gz.hcrc.checked

\* the header as it is in the input, from ID1 to the byte before the CRC16
header_on_wire == SubSeq(input, gz.hcrc.from + 1, gz.hcrc.to - 2)

\* C14: when the header CRC check is made, the bytes given to the hasher
\* are the header's bytes as they are in the input, in order, from ID1 to
\* the last byte before the CRC16
HeaderCrcOverWireBytes == HeaderCrcChecked => gz.hcrc.given = header_on_wire

\* ------------------------------------------------------------------------
\* BitReader on its own: any sequence of reads and is_eof calls over a
\* source of a few bytes
\* ------------------------------------------------------------------------

\* most bytes of a source
MaxSourceBytes == 4

\* the bytes sources are made of: 1011 0100 and 0010 1101
SourceBytes == { 180, 45 }

\* the bit counts given to read_u8_from_bits (up to 8) and
\* read_u16_from_bits
BitCounts == { 0, 1, 3, 7, 8, 11, 16 }

ReaderInit ==
  \E src \in SeqsUpTo(SourceBytes, MaxSourceBytes) :
    UnitInit([kind |-> "reader", pc |-> "new", source |-> src, delivered |-> <<>>,
              failed |-> FALSE, loaded |-> FALSE,
              last |-> [op |-> "none", k |-> 0, ok |-> TRUE, eof |-> FALSE, left |-> 0]])

ReaderRunning == mode = "unit" /\ unit.kind = "reader" /\ unit.pc = "reading"

\* BitReader::new(inner)
ReaderNew ==
  /\ mode = "unit" /\ unit.kind = "reader" /\ unit.pc = "new"
  /\ input' = unit.source
  /\ rd' = new_read
  /\ unit' = [unit EXCEPT !.pc = "reading"]
  /\ UNCHANGED idle

\* the bits of the source no call has been given yet: none once a read failed
bits_left_in_source == IF unit.failed THEN 0 ELSE 8 * Len(input) - Len(unit.delivered)

\* what a read of k bits that returned x leaves of the run: the bits of
\* the value it returned, least significant first, are the bits delivered
after_read(op, k, ok, bits) ==
  [unit EXCEPT !.delivered = IF ok THEN @ \o bits ELSE @,
               !.failed = @ \/ ~ok,
               !.last = [op |-> op, k |-> k, ok |-> ok, eof |-> FALSE,
                         left |-> bits_left_in_source]]

\* in_.read_bool()
ReaderReadBool ==
  /\ ReaderRunning
  /\ rd' = read_bool(rd).r
  /\ unit' = after_read("read_bool", 1, read_bool(rd).ok, view_bits(read_bool(rd).val, 1))
  /\ UNCHANGED input
  /\ UNCHANGED idle

\* in_.read_u8_from_bits(k) for k <= 8, in_.read_u16_from_bits(k)
ReaderReadFromBits ==
  /\ ReaderRunning
  /\ \E k \in BitCounts :
       /\ rd' = read_uN_from_bits(rd, k).r
       /\ unit' = after_read("read_uN_from_bits", k, read_uN_from_bits(rd, k).ok,
                             view_bits(read_uN_from_bits(rd, k).val, k))
  /\ UNCHANGED input
  /\ UNCHANGED idle

\* in_.read_u8()
ReaderReadU8 ==
  /\ ReaderRunning
  /\ rd' = read_u8(rd).r
  /\ unit' = after_read("read_u8", 8, read_u8(rd).ok, view_bits(read_u8(rd).val, 8))
  /\ UNCHANGED input
  /\ UNCHANGED idle

\* in_.read_u16()
ReaderReadU16 ==
  /\ ReaderRunning
  /\ rd' = read_u16(rd).r
  /\ unit' = after_read("read_u16", 16, read_u16(rd).ok, view_bits(read_u16(rd).val, 16))
  /\ UNCHANGED input
  /\ UNCHANGED idle

\* in_.read_u32()
ReaderReadU32 ==
  /\ ReaderRunning
  /\ rd' = read_u32(rd).r
  /\ unit' = after_read("read_u32", 32, read_u32(rd).ok,
                        view_bits(read_u32(rd).val.lo, 16)
                          \o view_bits(read_u32(rd).val.hi, 16))
  /\ UNCHANGED input
  /\ UNCHANGED idle

\* in_.is_eof()
ReaderIsEof ==
  /\ ReaderRunning
  /\ rd' = is_eof(rd).r
  /\ unit' = [unit EXCEPT !.loaded = @ \/ (needs_flush(rd) /\ ~is_eof(rd).eof),
                          !.last = [op |-> "is_eof", k |-> 0, ok |-> TRUE,
                                    eof |-> is_eof(rd).eof,
                                    left |-> bits_left_in_source]]
  /\ UNCHANGED input
  /\ UNCHANGED idle

ReaderNext ==
  \/ ReaderNew
  \/ ReaderReadBool
  \/ ReaderReadFromBits
  \/ ReaderReadU8
  \/ ReaderReadU16
  \/ ReaderReadU32
  \/ ReaderIsEof

ReaderSpec == ReaderInit /\ [][ReaderNext]_vars

\* C15: whatever reads and is_eof calls are made, the bits delivered are
\* the source's bits in order, each byte least significant bit first, a
\* field's first bit weighing 2^0; a read fails exactly when it needs more
\* bits than are left; is_eof loses no bit and returns true exactly when no
\* bit is left
ReaderDeliversSourceBits ==
  ReaderRunning =>
    /\ Len(unit.delivered) <= 8 * Len(input)
    /\ unit.delivered = SubSeq(bytes_bits(input), 1, Len(unit.delivered))
    /\ unit.last.op \notin { "none", "is_eof" } => (unit.last.ok <=> unit.last.k <= unit.last.left)
    /\ unit.last.op = "is_eof" => (unit.last.eof <=> unit.last.left = 0)

\* C15 witness: is_eof was called at the end of a byte with more to come,
\* and a later read of several bits went across the end of a byte
ReadAcrossBytesAfterIsEof ==
  /\ ReaderRunning /\ unit.loaded
  /\ unit.last.op = "read_uN_from_bits" /\ unit.last.ok /\ unit.last.k = 11
  /\ Len(unit.delivered) = 22

\* ------------------------------------------------------------------------
\* bit_io.rs: ByteBuffer<WriteBuffer> and BitWriter, on their own: any
\* sequence of write_all, write_u8 and flush_even_if_partial calls
\* ------------------------------------------------------------------------

\* ByteBuffer::new_write: BitArray::ZERO and idx 0
new_write == [byte |-> [i \in 1..BITS |-> 0], idx |-> 0]

\* BitWriter::new(inner) on an empty sink
new_writer == [buffer |-> new_write, inner |-> <<>>]

\* ByteBuffer::write: bit_count = min(bits_left, slice.len()) bits of the
\* slice go to byte[idx .. idx + bit_count]
buffer_write(b, slice) ==
  [byte |-> [i \in 1..BITS |->
               IF i > b.idx /\ i <= b.idx + Min(bits_left(b), Len(slice))
               THEN slice[i - b.idx] ELSE b.byte[i]],
   idx |-> b.idx + Min(bits_left(b), Len(slice))]

\* flush_even_if_partial emitting the buffer's byte when no bit is pending too
flush_whatever_is_pending(w) ==
  [buffer |-> new_write, inner |-> Append(w.inner, load_le(w.buffer.byte))]

\* BitWriter::flush_even_if_partial
flush_even_if_partial(w) ==
  IF w.buffer.idx = 0 THEN w
  ELSE [buffer |-> new_write, inner |-> Append(w.inner, load_le(w.buffer.byte))]

\* BitWriter::write_all, the end of one round of its loop
flush_if_needed(w) == IF needs_flush(w.buffer) THEN flush_even_if_partial(w) ELSE w

\* BitWriter::write_all
RECURSIVE write_all(_, _)
write_all(w, slice) ==
  IF slice = <<>> THEN w
  ELSE write_all(flush_if_needed([w EXCEPT !.buffer = buffer_write(@, slice)]),
                 SubSeq(slice, Min(bits_left(w.buffer), Len(slice)) + 1, Len(slice)))

\* BitWriter::write_u8
write_u8(w, byte) == write_all(w, view_bits(byte, 8))

\* most calls made on one BitWriter
MaxWrites == 5

\* the slices given to write_all
BitSlices == { <<>>, <<1>>, <<1, 0, 1>>, <<0, 1, 1, 0, 1, 0, 0, 1, 1, 1, 0>> }

WriterInit ==
  UnitInit([kind |-> "writer", pc |-> "new", w |-> new_writer, packed |-> <<>>, log |-> <<>>])

WriterRunning == mode = "unit" /\ unit.kind = "writer" /\ unit.pc = "writing"

WriterNew ==
  /\ mode = "unit" /\ unit.kind = "writer" /\ unit.pc = "new"
  /\ unit' = [unit EXCEPT !.pc = "writing", !.w = new_writer]
  /\ UNCHANGED << input, rd >>
  /\ UNCHANGED idle

\* out.write_all(slice); packed is what went in so far, in write order,
\* with the zero bits a flush has to add
WriterWriteAll ==
  /\ WriterRunning /\ Len(unit.log) < MaxWrites
  /\ \E slice \in BitSlices :
       unit' = [unit EXCEPT !.w = write_all(@, slice),
                            !.packed = @ \o slice,
                            !.log = Append(@, "write_all")]
  /\ UNCHANGED << input, rd >>
  /\ UNCHANGED idle

\* out.write_u8(byte)
WriterWriteU8 ==
  /\ WriterRunning /\ Len(unit.log) < MaxWrites
  /\ \E byte \in SourceBytes :
       unit' = [unit EXCEPT !.w = write_u8(@, byte),
                            !.packed = @ \o byte_bits(byte),
                            !.log = Append(@, "write_u8")]
  /\ UNCHANGED << input, rd >>
  /\ UNCHANGED idle

\* out.flush_even_if_partial()
WriterFlush ==
  /\ WriterRunning /\ Len(unit.log) < MaxWrites
  /\ unit' = [unit EXCEPT !.w = flush_even_if_partial(@),
                          !.packed = pad8(@),
                          !.log = Append(@, "flush")]
  /\ UNCHANGED << input, rd >>
  /\ UNCHANGED idle

WriterNext ==
  \/ WriterNew
  \/ WriterWriteAll
  \/ WriterWriteU8
  \/ WriterFlush

WriterSpec == WriterInit /\ [][WriterNext]_vars

\* C16: after any calls the sink holds the written bits packed least
\* significant bit first in write order, one byte for every 8 bits and one,
\* filled with zeros, for the bits a flush found pending; a flush with
\* nothing pending emits nothing; the bits still pending are in the buffer
\* below its index, which stays in 0..8, with zeros above
WriterPacksBits ==
  WriterRunning =>
    /\ unit.w.inner = to_bytes(unit.packed)
    /\ unit.w.buffer.idx \in 0..BITS
    /\ unit.w.buffer.idx = Len(unit.packed) - 8 * Len(unit.w.inner)
    /\ \A i \in 1..BITS :
         unit.w.buffer.byte[i] = IF i <= unit.w.buffer.idx
                                 THEN unit.packed[8 * Len(unit.w.inner) + i] ELSE 0

\* C16 witness: three bits written, two flushes in a row, then a byte
FlushedTwiceThenWritten ==
  /\ WriterRunning
  /\ unit.log = << "write_all", "flush", "flush", "write_u8" >>
  /\ unit.w.inner = << 5, 180 >>

\* ------------------------------------------------------------------------
\* DistanceEncoding::Fixed on its own, next to the Huffman tree of
\* thirty code lengths of 5
\* ------------------------------------------------------------------------

\* the distance codes
DistanceCodes == 0..29

\* the bits that follow the code in its byte
DistanceFills == 0..7

DistanceInit ==
  \E c \in DistanceCodes, fill \in DistanceFills :
    UnitInit([kind |-> "distance", pc |-> "new", code |-> c, fill |-> fill,
              fixed |-> [err |-> "None", val |-> 0],
              tree |-> [err |-> "None", val |-> 0]])

DistanceRunning == mode = "unit" /\ unit.kind = "distance"

\* the code on the wire as RFC 1951 packs a Huffman code: its most
\* significant bit is the first bit read
DistanceSource ==
  /\ DistanceRunning /\ unit.pc = "new"
  /\ input' = to_bytes(msb_first(unit.code, 5) \o view_bits(unit.fill, 3))
  /\ rd' = new_read
  /\ unit' = [unit EXCEPT !.pc = "source"]
  /\ UNCHANGED idle

\* DistanceEncoding::Fixed.decode(in_)
DistanceDecodeFixed ==
  /\ DistanceRunning /\ unit.pc = "source"
  /\ unit' = [unit EXCEPT
                !.pc = "fixed",
                !.fixed = [err |-> distance_decode([kind |-> "Fixed", tree |-> no_tree], rd).err,
                           val |-> distance_decode([kind |-> "Fixed", tree |-> no_tree], rd).val]]
  /\ UNCHANGED << input, rd >>
  /\ UNCHANGED idle

\* DistanceEncoding::Dynamic(tree).decode(in_), the tree built from thirty
\* code lengths of 5, on the same bits
DistanceDecodeTree ==
  /\ DistanceRunning /\ unit.pc = "fixed"
  /\ unit' = [unit EXCEPT
                !.pc = "both",
                !.tree = [err |-> distance_decode([kind |-> "Dynamic", tree |-> five_bit_distances], rd).err,
                          val |-> distance_decode([kind |-> "Dynamic", tree |-> five_bit_distances], rd).val]]
  /\ UNCHANGED << input, rd >>
  /\ UNCHANGED idle

DistanceNext ==
  \/ DistanceSource
  \/ DistanceDecodeFixed
  \/ DistanceDecodeTree

DistanceSpec == DistanceInit /\ [][DistanceNext]_vars

\* C17: the fixed distance code is a 5-bit Huffman code, its first bit read
\* the most significant bit of the code number: DistanceEncoding::Fixed
\* decodes the code sent and decodes as the tree of thirty lengths of 5 does
FixedDistanceIsHuffmanCode ==
  (DistanceRunning /\ unit.pc = "both") =>
    /\ unit.fixed = [err |-> "None", val |-> unit.code]
    /\ unit.fixed = unit.tree

\* the tree of thirty lengths of 5 decodes the code sent
TreeDistanceIsHuffmanCode ==
  (DistanceRunning /\ unit.pc = "both") => unit.tree = [err |-> "None", val |-> unit.code]

\* ------------------------------------------------------------------------
\* The two decode_code_lengths calls of a dynamic block on their own: the
\* literal/length code lengths and then the distance code lengths, read
\* from one list of code length symbols
\* ------------------------------------------------------------------------

\* most items of a list of code length symbols
MaxLengthItems == 4

\* the items: [code length symbol, the value of its extra bits, how many]
LengthItems == { << 1, 0, 0 >>, << 2, 0, 0 >>, << 3, 0, 0 >>, << 16, 0, 2 >>, << 17, 0, 3 >> }

\* the code lengths RFC 1951, 3.2.7 has a list of items stand for, after
\* the lengths acc: one list for both alphabets, 16 repeating the length
\* before it whichever alphabet that was in; << -1 >> when 16 comes first
RECURSIVE rfc_code_lengths(_, _)
rfc_code_lengths(acc, items) ==
  IF items = <<>> THEN acc
  ELSE IF Head(items)[1] <= 15
  THEN rfc_code_lengths(Append(acc, Head(items)[1]), Tail(items))
  ELSE IF Head(items)[1] = 16
  THEN IF acc = <<>> THEN << -1 >>
       ELSE rfc_code_lengths(acc \o [i \in 1..(3 + Head(items)[2]) |-> acc[Len(acc)]],
                             Tail(items))
  ELSE rfc_code_lengths(
         acc \o [i \in 1..((IF Head(items)[1] = 17 THEN 3 ELSE 11) + Head(items)[2]) |-> 0],
         Tail(items))

\* a code some symbol of which has a length, and which is not over-subscribed
usable_code(lengths) ==
  /\ lengths # <<>>
  /\ \E i \in 1..Len(lengths) : lengths[i] > 0
  /\ not_over_subscribed(lengths, 15)

\* the lists and the sizes of the two alphabets they fill exactly: the
\* first item ends within the first alphabet
LengthLists ==
  { l \in [items : SeqsUpTo(LengthItems, MaxLengthItems) \ { <<>> },
           literal_count : 1..(6 * MaxLengthItems),
           distance_count : 1..(6 * MaxLengthItems)] :
      /\ l.items[1][1] # 16
      /\ Len(rfc_code_lengths(<<>>, l.items)) = l.literal_count + l.distance_count
      /\ Len(rfc_code_lengths(<<>>, << l.items[1] >>)) <= l.literal_count
      /\ usable_code(SubSeq(rfc_code_lengths(<<>>, l.items), 1, l.literal_count))
      /\ usable_code(SubSeq(rfc_code_lengths(<<>>, l.items), l.literal_count + 1,
                            l.literal_count + l.distance_count)) }

LengthsInit ==
  \E l \in LengthLists :
    UnitInit([kind |-> "lengths", pc |-> "new", list |-> l,
              literal |-> [err |-> "None", tree |-> no_tree],
              distance |-> [err |-> "None", tree |-> no_tree]])

LengthsRunning == mode = "unit" /\ unit.kind = "lengths"

\* the tree of the code length code
code_lengths_huffman_tree == from_code_lengths(DYNAMIC_ORDER_LENGTHS)

LengthsSource ==
  /\ LengthsRunning /\ unit.pc = "new"
  /\ input' = to_bytes(pad8(length_items_bits(unit.list.items)))
  /\ rd' = new_read
  /\ unit' = [unit EXCEPT !.pc = "source"]
  /\ UNCHANGED idle

\* code_lengths_huffman_tree.decode_code_lengths(literal_code_length_count, in_)?
LengthsDecodeLiteral ==
  /\ LengthsRunning /\ unit.pc = "source"
  /\ rd' = decode_code_lengths(code_lengths_huffman_tree, unit.list.literal_count, rd).r
  /\ unit' = [unit EXCEPT
                !.pc = IF decode_code_lengths(code_lengths_huffman_tree,
                                              unit.list.literal_count, rd).err = "None"
                       THEN "literal" ELSE "returned",
                !.literal = [err |-> decode_code_lengths(code_lengths_huffman_tree,
                                                         unit.list.literal_count, rd).err,
                             tree |-> decode_code_lengths(code_lengths_huffman_tree,
                                                          unit.list.literal_count, rd).tree]]
  /\ UNCHANGED input
  /\ UNCHANGED idle

\* code_lengths_huffman_tree.decode_code_lengths(distance_code_length_count, in_)?
LengthsDecodeDistance ==
  /\ LengthsRunning /\ unit.pc = "literal"
  /\ rd' = decode_code_lengths(code_lengths_huffman_tree, unit.list.distance_count, rd).r
  /\ unit' = [unit EXCEPT
                !.pc = "returned",
                !.distance = [err |-> decode_code_lengths(code_lengths_huffman_tree,
                                                          unit.list.distance_count, rd).err,
                              tree |-> decode_code_lengths(code_lengths_huffman_tree,
                                                           unit.list.distance_count, rd).tree]]
  /\ UNCHANGED input
  /\ UNCHANGED idle

LengthsNext ==
  \/ LengthsSource
  \/ LengthsDecodeLiteral
  \/ LengthsDecodeDistance

LengthsSpec == LengthsInit /\ [][LengthsNext]_vars

\* C18: the literal/length code lengths and the distance code lengths are
\* one run-length list: a 16 that comes first among the distance lengths
\* repeats the last literal/length code length, and a repeat may fill the
\* end of the first alphabet and the start of the second
CodeLengthsAreOneList ==
  (LengthsRunning /\ unit.pc = "returned") =>
    /\ unit.literal.err = "None"
    /\ unit.distance.err = "None"
    /\ unit.literal.tree
         = from_code_lengths(SubSeq(rfc_code_lengths(<<>>, unit.list.items),
                                    1, unit.list.literal_count))
    /\ unit.distance.tree
         = from_code_lengths(SubSeq(rfc_code_lengths(<<>>, unit.list.items),
                                    unit.list.literal_count + 1,
                                    unit.list.literal_count + unit.list.distance_count))

\* where no repeat has to do with the lengths of both alphabets the two
\* calls give the trees of the list: the alphabets meet between two items
\* and the item after is no 16
ListSplitsBetweenItems(l) ==
  \E k \in 1..(Len(l.items) - 1) :
    /\ Len(rfc_code_lengths(<<>>, SubSeq(l.items, 1, k))) = l.literal_count
    /\ l.items[k + 1][1] # 16

CodeLengthsOfSplitList ==
  (LengthsRunning /\ unit.pc = "returned" /\ ListSplitsBetweenItems(unit.list)) =>
    /\ unit.literal.err = "None"
    /\ unit.distance.err = "None"
    /\ unit.literal.tree
         = from_code_lengths(SubSeq(rfc_code_lengths(<<>>, unit.list.items),
                                    1, unit.list.literal_count))
    /\ unit.distance.tree
         = from_code_lengths(SubSeq(rfc_code_lengths(<<>>, unit.list.items),
                                    unit.list.literal_count + 1,
                                    unit.list.literal_count + unit.list.distance_count))

\* ------------------------------------------------------------------------
\* The stages of DeflateDecoder
\* ------------------------------------------------------------------------

\* the body of the block of ParsedMode is done: a stored block's LEN bytes
\* are out, a Huffman block's end-of-block symbol was decoded
BodyProcessed ==
  IF encoding = "NoCompression"
  THEN pc = "stored" /\ Len(out) - blk.start = blk.len
  ELSE pc = "end"

\* NewBlock -> ParsedMode: the three bits of a block header were read and
\* the two of the encoding are not 11
HeaderStep ==
  /\ stage = "NewBlock" /\ stage' = "ParsedMode"
  /\ bits_taken(rd') = bits_taken(rd) + 3
  /\ encoding' \in { "NoCompression", "FixedHuffman", "DynamicHuffman" }
  /\ SubSeq(bytes_bits(input), bits_taken(rd) + 1, bits_taken(rd) + 3)
       = << IF is_final' THEN 1 ELSE 0 >> \o SubSeq(encoding_bits(encoding'), 1, 2)
  /\ err' = "None"

\* ParsedMode -> NewBlock or Complete: after the body, Complete when
\* is_final and with the rest of the current input byte discarded
BodyStep ==
  /\ stage = "ParsedMode"
  /\ BodyProcessed
  /\ stage' = IF is_final THEN "Complete" ELSE "NewBlock"
  /\ stage' = "Complete" => needs_flush(rd')
  /\ out' = out
  /\ err' = "None"

\* GzipDecoder makes a DeflateDecoder for a member: another run
NewDecoderStep ==
  /\ mode = "gzip" /\ gz.stage = "DecodeDeflate" /\ gz.pc = "new" /\ gz'.pc = "run"
  /\ stage' = "NewBlock"

StageStep ==
  /\ stage' # stage => HeaderStep \/ BodyStep \/ NewDecoderStep
  /\ (err = "None" /\ err' # "None") => stage' = stage
  /\ (stage = "Complete" /\ mode = "deflate") =>
       /\ stage' = "Complete"
       /\ rd' = rd
       /\ out' = out
       /\ err' = err

\* C19: the stage of a DeflateDecoder goes NewBlock -> ParsedMode ->
\* (NewBlock | Complete): to ParsedMode only by reading a block header of
\* three bits whose encoding is not 11, to Complete only from ParsedMode
\* with is_final after the block's body and with the rest of the current
\* input byte discarded; a step that fails leaves the stage as it was, and
\* a decode call on a Complete decoder reads no input and emits no output
StageAlternates == [][StageStep]_vars

\* C19 witness: a stream of two blocks, the second a fixed Huffman block,
\* was decoded to Complete and decode was called again
CompleteDecodedAgain ==
  /\ mode = "deflate" /\ stage = "Complete" /\ calls = MaxCalls
  /\ desc.kind = "stream" /\ Len(desc.blocks) = 2
  /\ desc.blocks[2].type = "fixed"
  /\ out # <<>>

\* ------------------------------------------------------------------------
\* Termination of decode, and inputs that end early
\* ------------------------------------------------------------------------

\* decode has returned: with an error, or with the decoder Complete
DecodeReturned ==
  \/ err # "None"
  \/ mode = "deflate" /\ stage = "Complete"
  \/ mode = "gzip" /\ gz.stage = "Complete"

\* the input is a valid stream of RFC 1951 or a valid member of RFC 1952
\* without its last bytes
InputEndsEarly ==
  \/ /\ desc.kind = "stream" /\ desc.cut > 0
     /\ stream_output([ok |-> TRUE, bytes |-> <<>>], desc.blocks).ok
  \/ /\ desc.kind = "members" /\ desc.cut > 0
     /\ \A i \in 1..Len(desc.members) : valid_member(desc.members[i])

\* C20: decode of an input that ends within a block, a header or a trailer
\* returns UnexpectedEof
EndsEarlyInUnexpectedEof ==
  (InputEndsEarly /\ DecodeReturned) => err = "UnexpectedEof"

\* the same for DeflateDecoder alone, and for the members whose FLG reads
\* the same in both bit orders
EndsEarlyInUnexpectedEofFlgZero ==
  (InputEndsEarly /\ DecodeReturned /\ (mode = "gzip" => desc.members[1].flg = 0))
    => err = "UnexpectedEof"

\* the run goes on as long as decode has not returned: decode is a loop
\* that does not wait
FairSpec == Spec /\ ([]<>DecodeReturned \/ []<><<Next>>_vars)

\* every decode returns
DecodeTerminates == <>DecodeReturned

\* ------------------------------------------------------------------------
\* DeflateEncoder on a source whose reads may fail
\* ------------------------------------------------------------------------

\* most reads of one run that fail with Interrupted
MaxInterrupted == 2

EncoderInit ==
  /\ mode = "encode"
  /\ input = <<>>
  /\ rd = new_read
  /\ stage = "NewBlock"
  /\ is_final = FALSE
  /\ encoding = "NoCompression"
  /\ pc = "dispatch"
  /\ blk = [len |-> 0, nlen |-> 0, start |-> 0]
  /\ cnt = 0
  /\ cur = [l3 |-> 0, d1 |-> 0, start |-> 0, held |-> 0]
  /\ trees = fixed_trees
  /\ out_buffer = new_out_buffer
  /\ out = <<>>
  /\ cksum = new_out_with_checksum
  /\ err = "None"
  /\ gz = [stage |-> "NewMember", pc |-> "new", flg |-> 0,
           flags |-> no_flags,
           header_start |-> 0, header_end |-> 0, start |-> 0,
           crc32 |-> u32_zero, isize |-> u32_zero, hcrc |-> no_hcrc]
  /\ \E src \in Sources : enc = [stage |-> "NewBlock", src |-> src, pos |-> 0, buf |-> <<>>]
  /\ enc_out = <<>>
  /\ desc = [kind |-> "failing source"]
  /\ calls = 0
  /\ unit = [kind |-> "reads", interrupted |-> 0, sink |-> <<>>]

\* the encoder runs on a source whose reads may fail
FailingSourceRun == mode = "encode" /\ unit.kind = "reads"

\* advance_stage, NewBlock: the read fails with Interrupted and the loop
\* forgets the bytes of the block read so far
EncodeReadInterrupted_restarts ==
  /\ EncRunning /\ FailingSourceRun
  /\ unit.interrupted < MaxInterrupted
  /\ unit' = [unit EXCEPT !.interrupted = @ + 1]
  /\ enc' = [enc EXCEPT !.buf = << >>]
  /\ UNCHANGED << mode, err, enc_out, input, rd, out, cksum, gz, desc, calls >>
  /\ UNCHANGED deflate_state

\* advance_stage, NewBlock: the read fails with Interrupted: `continue`,
\* buf and len as they are
EncodeReadInterrupted ==
  /\ EncRunning /\ FailingSourceRun
  /\ unit.interrupted < MaxInterrupted
  /\ unit' = [unit EXCEPT !.interrupted = @ + 1]
  /\ UNCHANGED << mode, err, enc, enc_out, input, rd, out, cksum, gz, desc, calls >>
  /\ UNCHANGED deflate_state

\* advance_stage, NewBlock: the read fails with another error:
\* `return Err(e)`, and buf goes with the call; unit.sink is the sink as
\* the failing read found it
EncodeReadError ==
  /\ EncRunning /\ FailingSourceRun
  /\ err' = "Other"
  /\ enc' = [enc EXCEPT !.buf = << >>]
  /\ unit' = [unit EXCEPT !.sink = enc_out]
  /\ UNCHANGED << mode, enc_out, input, rd, out, cksum, gz, desc, calls >>
  /\ UNCHANGED deflate_state

EncoderNext ==
  \/ EncodeRead
  \/ EncodeReadEof
  \/ EncodeReadInterrupted
  \/ EncodeReadError

EncoderSpec == EncoderInit /\ [][EncoderNext]_vars

\* the blocks are whole, full and not final and hold the start of the source
full_blocks_only(blocks) ==
  /\ \A i \in 1..Len(blocks) :
       /\ blocks[i].header = 0
       /\ blocks[i].len = MAX_BYTES_PER_BLOCK
       /\ blocks[i].nlen = 65535 - blocks[i].len
       /\ Len(blocks[i].data) = blocks[i].len
  /\ Len(blocks_data(blocks)) <= Len(enc.src)
  /\ blocks_data(blocks) = SubSeq(enc.src, 1, Len(blocks_data(blocks)))

\* C21: whatever reads fail with Interrupted and whatever the sizes of the
\* others, the bytes of the blocks written and of the block being filled
\* are the source bytes read so far, in order; after a read that fails
\* with another error encode has returned that error, the stage is still
\* NewBlock and the sink holds what it held before: whole blocks without
\* the final flag
InterruptedReadsRetried ==
  FailingSourceRun =>
    /\ emitted_blocks(enc_out).ok
    /\ err = "None" => well_formed_blocks(emitted_blocks(enc_out).blocks)
    /\ err # "None" =>
         /\ err = "Other"
         /\ enc.stage = "NewBlock"
         /\ enc_out = unit.sink
         /\ full_blocks_only(emitted_blocks(enc_out).blocks)

\* C21 witness: after a full block and reads that failed with Interrupted,
\* a read failed with another error while the second block was being filled
ReadFailedInSecondBlock ==
  /\ FailingSourceRun /\ err = "Other"
  /\ unit.interrupted = MaxInterrupted
  /\ enc.pos = MAX_BYTES_PER_BLOCK + 1
  /\ Len(emitted_blocks(enc_out).blocks) = 1

\* C21 witness of the retry: a source longer than two blocks was encoded
\* whole although reads failed with Interrupted
EncodedDespiteInterrupted ==
  /\ FailingSourceRun /\ enc.stage = "Complete"
  /\ unit.interrupted = MaxInterrupted
  /\ Len(enc.src) > 2 * MAX_BYTES_PER_BLOCK
  /\ blocks_data(emitted_blocks(enc_out).blocks) = enc.src

\* ------------------------------------------------------------------------
\* The heap array of the trees from_code_lengths builds
\* ------------------------------------------------------------------------

\* tree[p] of the tree built in this run; None is -1
built_tree_at(p) == unit.tree.slot[p + 1]

\* the position RFC 1951, 3.2.2 gives symbol s: the canonical code of the
\* symbols whose length is not 0, below a leading 1
rfc_heap_index(code_lengths, s) ==
  2 ^ code_lengths[s + 1]
    + rfc_next_code(code_lengths, code_lengths[s + 1])
    + Cardinality({ i \in 1..s : code_lengths[i] = code_lengths[s + 1] })

\* the positions above position p, the root included
positions_above(p) == { p \div (2 ^ k) : k \in 1..15 } \ { 0 }

\* from_code_lengths has just returned
TreeBuilt == HuffmanRunning /\ unit.pc = "built"

\* the entries of length 0 leave the others their codes
CodesUnchangedByZeroLengths ==
  TreeBuilt =>
    \A s \in 0..(Len(unit.code_lengths) - 1) :
      unit.code_lengths[s + 1] > 0 =>
        built_tree_at(rfc_heap_index(unit.code_lengths, s)) = s

\* C22: in a tree from_code_lengths has built no slot of the heap array,
\* the root at index 1 included, stores a symbol whose code length is 0,
\* the positions above a symbol's store none, and the symbols whose length
\* is not 0 have the codes they have without the entries of length 0
ZeroLengthSymbolsAbsent ==
  TreeBuilt =>
    /\ \A p \in 0..(unit.tree.size - 1) :
         built_tree_at(p) # -1 => unit.code_lengths[built_tree_at(p) + 1] > 0
    /\ \A s \in 0..(Len(unit.code_lengths) - 1) :
         unit.code_lengths[s + 1] > 0 =>
           \A q \in positions_above(rfc_heap_index(unit.code_lengths, s)) :
             built_tree_at(q) = -1
    /\ \A s \in 0..(Len(unit.code_lengths) - 1) :
         unit.code_lengths[s + 1] > 0 =>
           built_tree_at(rfc_heap_index(unit.code_lengths, s)) = s

\* the same but for the root: the other slots hold no symbol of length 0
\* and the positions between the root and a symbol hold none
ZeroLengthSymbolsOnlyAtRoot ==
  TreeBuilt =>
    /\ \A p \in 2..(unit.tree.size - 1) :
         built_tree_at(p) # -1 => unit.code_lengths[built_tree_at(p) + 1] > 0
    /\ built_tree_at(0) = -1
    /\ built_tree_at(1) # -1 =>
         /\ unit.code_lengths[built_tree_at(1) + 1] = 0
         /\ \A s \in (built_tree_at(1) + 1)..(Len(unit.code_lengths) - 1) :
              unit.code_lengths[s + 1] > 0
    /\ \A s \in 0..(Len(unit.code_lengths) - 1) :
         unit.code_lengths[s + 1] > 0 =>
           \A q \in positions_above(rfc_heap_index(unit.code_lengths, s)) \ { 1 } :
             built_tree_at(q) = -1

====
